---------------------------- MODULE Spec2Model ----------------------------
(***************************************************************************)
(* The WebGPU actor of components/webgpu/lib.rs: producers enqueue         *)
(* WebGPURequest messages on one ipc channel, the WGPU thread drains it in *)
(* WGPU::run, and WGPUExternalImages reads the shared presentation table.  *)
(***************************************************************************)
EXTENDS Integers, Sequences, FiniteSets, TLC

(***************************************************************************)
(* Bounds of the model.                                                    *)
(***************************************************************************)
\* Total number of requests the producers enqueue in one behaviour.
MaxReqs == 3
\* Largest swapchain width and height of the stride specification.
MaxWidth == 130
MaxHeight == 2
\* Number of requests of the swapchain lifecycle specification.
MaxChainReqs == 4
\* Number of requests, and of compositor calls on the external image
\* provider, of the provider specification.
MaxImageReqs == 3
MaxCalls == 3
\* The low halves of the wide widths lie within this distance of 0 and of
\* 2^16 - 1.
MaxWideLo == 70

(***************************************************************************)
(* Program constants.                                                      *)
(***************************************************************************)
\* wgt::COPY_BYTES_PER_ROW_ALIGNMENT, used at lib.rs:531.
COPY_BYTES_PER_ROW_ALIGNMENT == 256
\* Width of the u32 arithmetic of buffer_stride and buffer_size.
U32Bits == 32

\* The producer threads, each holding a clone of the WebGPU sender.
Producers == {"script_a", "script_b"}
\* External image ids the producers use (u64 keys of wgpu_image_map).
ExternalIds == {1, 2}
\* (width, height) of image_desc.size in the requests of Spec.
Sizes == {<<0, 1>>, <<1, 2>>}
\* The id sets (SmallVec<[AdapterId; 4]>) a RequestAdapter carries; id 1 is of
\* an available backend, id 2 is not.
AdapterIdSets == {{2}, {1, 2}}
\* The device a swapchain is created on.
DeviceIds == {7}
\* The image key and the texture a present or destroy request names.
ImageKeys == {1}
TextureIds == {3}
\* The bytes the backend may hand back for a mapped staging buffer.
MappedBytes == {0, 9}

VARIABLES
    chan,            \* the ipc channel: requests sent and not yet received
    sent,            \* per producer, the number of requests it has sent
    pc,              \* where the WGPU thread is: recv, a step of a handler,
                     \* done, panicked, aborted (the process has ended)
    handled,         \* the requests WGPU::run has received, in order
    adapters,        \* WGPU.adapters
    devices,         \* WGPU.devices
    global,          \* WGPU.global: "live" until dropped
    wgpu_image_map,  \* the shared HashMap<u64, PresentationData>
    map_poisoned,    \* whether the Mutex around wgpu_image_map is poisoned
    locked_ids,      \* WGPUExternalImages.locked_ids
    next_ext_id,     \* WebrenderExternalImageRegistry::next_id counter
    registry,        \* the Mutex around the registry: free, held, poisoned
    next_image_key,  \* RenderApi::generate_image_key counter
    backend_busy,    \* number of backend calls in progress
    locals,          \* the locals of the handler the actor thread is in
    provider,        \* the compositor thread: ok, locking, locked, panicked
    returned,        \* the last lock/unlock call of the compositor and its result
    effects,         \* every observable effect of the actor, in order
    bench,           \* one call of benchmark_function (perf_counter/linux.rs)
    wide             \* one evaluation of the stride expression on a wide width

vars == <<chan, sent, pc, handled, adapters, devices, global, wgpu_image_map,
          map_poisoned, locked_ids, next_ext_id,
          registry, next_image_key, backend_busy,
          locals, provider, returned, effects,
          bench, wide>>

(***************************************************************************)
(* Integer helpers: Rust's u32 arithmetic.                                 *)
(***************************************************************************)
RECURSIVE Pow2(_)
Pow2(n) == IF n = 0 THEN 1 ELSE 2 * Pow2(n - 1)

\* `as u32` and wrapping u32 arithmetic: x mod 2^32 of a non-negative x,
\* computed on the two 16-bit halves because TLC's integers end at
\* 2^31 - 1.
U32(x) ==
    LET half == Pow2(U32Bits \div 2)
    IN ((x \div half) % half) * half + (x % half)

RECURSIVE BitOr(_, _)
\* The | operator on non-negative integers.
BitOr(a, b) ==
    IF a = 0 THEN b
    ELSE IF b = 0 THEN a
    ELSE (IF (a % 2 = 1) \/ (b % 2 = 1) THEN 1 ELSE 0)
         + 2 * BitOr(a \div 2, b \div 2)

\* The smallest multiple of a that is >= x.
RoundUp(x, a) == ((x + a - 1) \div a) * a

\* A mutant of BufferStride: rounds width * 4 up to the alignment, leaving
\* an already aligned value as it is.
BufferStrideRoundUp(width) ==
    U32(RoundUp(U32(width * 4), COPY_BYTES_PER_ROW_ALIGNMENT))

\* lib.rs:530-531: ((width * 4) as u32 | (ALIGN - 1)) + 1
BufferStride(width) ==
    U32(BitOr(U32(width * 4), COPY_BYTES_PER_ROW_ALIGNMENT - 1) + 1)

\* A mutant of BufferSize: the height is left out of the product.
BufferSizeIgnoresHeight(stride, height) == U32(stride)
\* lib.rs:537, 545, 751: (buffer_stride * height as u32)
BufferSize(stride, height) == U32(stride * U32(height))

(***************************************************************************)
(* Byte vectors.  A Vec<u8> whose bytes are all equal is kept as its       *)
(* length and that byte; the empty vector has one representation.          *)
(***************************************************************************)
EmptyVec == [len |-> 0, byte |-> 0]
\* A mutant of VecFill: the vector is one byte short.
VecFillShort(b, n) == IF n <= 1 THEN EmptyVec ELSE [len |-> n - 1, byte |-> b]
\* vec![b; n]
VecFill(b, n) == IF n = 0 THEN EmptyVec ELSE [len |-> n, byte |-> b]

(***************************************************************************)
(* Requests (enum WebGPURequest, lib.rs:58-196).  A request is             *)
(* [n, kind, p]: n is its position in the order of enqueueing, which also  *)
(* names its reply handle and the fresh ids the sender minted for it.      *)
(* The variants modelled are the eight below; the other variants of the    *)
(* enum are not part of the model.                                         *)
(***************************************************************************)
Req(kind, p) == [n |-> 0, kind |-> kind, p |-> p]

\* lib.rs:83-87; label_nul tells whether descriptor.label holds a NUL byte.
CreateBufferReqs ==
    {Req("CreateBuffer", [device_id |-> d, label_nul |-> z])
        : d \in DeviceIds, z \in BOOLEAN}
\* lib.rs:101
CreateContextReqs == {Req("CreateContext", [none |-> 0])}
\* lib.rs:137-144
CreateSwapChainReqs ==
    {Req("CreateSwapChain", [device_id |-> d, external_id |-> x, size |-> s])
        : d \in DeviceIds, x \in ExternalIds, s \in Sizes}
\* lib.rs:156-159
DestroySwapChainReqs ==
    {Req("DestroySwapChain", [external_id |-> x, image_key |-> k])
        : x \in ExternalIds, k \in ImageKeys}
\* lib.rs:161
ExitReqs == {Req("Exit", [none |-> 0])}
\* lib.rs:162-166
RequestAdapterReqs ==
    {Req("RequestAdapter", [ids |-> s]) : s \in AdapterIdSets}
\* lib.rs:167-172
RequestDeviceReqs ==
    {Req("RequestDevice", [adapter_id |-> a]) : a \in {1}}
\* lib.rs:185-190
SwapChainPresentReqs ==
    {Req("SwapChainPresent",
         [external_id |-> x, texture_id |-> t, image_key |-> k])
        : x \in ExternalIds, t \in TextureIds, k \in ImageKeys}

Requests ==
    CreateBufferReqs \cup CreateContextReqs \cup CreateSwapChainReqs
    \cup DestroySwapChainReqs \cup ExitReqs \cup RequestAdapterReqs
    \cup RequestDeviceReqs \cup SwapChainPresentReqs

\* The variants that carry a reply handle (an IpcSender) which the handler
\* sends on: lib.rs:101, 141, 161, 163, 168.
ReplyBearing ==
    {"RequestAdapter", "RequestDevice", "CreateContext", "CreateSwapChain",
     "Exit"}

(***************************************************************************)
(* Collaborators.                                                          *)
(***************************************************************************)
\* id.backend() of an adapter id, and the backends the instance offers.
BackendOf(id) == IF id = 1 THEN "Vulkan" ELSE "Empty"
AvailableBackends == {"Vulkan"}

NoAdapter == 0
\* A mutant of pick_adapter: the first proposed id is taken whether or not
\* its backend is available.
pick_adapter_any(ids) ==
    IF ids # {} THEN CHOOSE id \in ids : TRUE ELSE NoAdapter
\* Global::pick_adapter with AdapterInputs::IdSet(&ids, |id| id.backend()):
\* an id of the set whose backend is available, or None.
pick_adapter(ids) ==
    IF \E id \in ids : BackendOf(id) \in AvailableBackends
    THEN CHOOSE id \in ids : BackendOf(id) \in AvailableBackends
    ELSE NoAdapter

\* Global::adapter_get_info(adapter_id).name
adapter_name(id) == "adapter " \o BackendOf(id)

\* The channel whose receiving end is WGPU.receiver, and the script channel.
RequestChannel == "wgpu_requests"
ScriptChannel == "script"

\* A mutant of WGPU_sender: a sender of some other channel.
WGPU_sender_other == ScriptChannel
\* WGPU.sender: sender_clone of the channel the actor receives from
\* (lib.rs:211, 221, 239, 292).
WGPU_sender == RequestChannel

(***************************************************************************)
(* Effects.  Every backend call, compositor transaction, table change and  *)
(* message sent by the actor is appended to effects with the request it    *)
(* belongs to, the number of backend calls in progress when it happened    *)
(* and whether the table's MutexGuard was alive.                           *)
(***************************************************************************)
Eff(n, kind, op, arg, ok, busy, guard) ==
    [req |-> n, kind |-> kind, op |-> op, arg |-> arg, ok |-> ok,
     busy |-> busy, guard |-> guard]

Backend(n, op, arg) == Eff(n, "backend", op, arg, TRUE, backend_busy, FALSE)
Txn(n, op, arg, guard) == Eff(n, "txn", op, arg, TRUE, backend_busy, guard)
Table(n, op, arg) == Eff(n, "table", op, arg, TRUE, backend_busy, TRUE)
\* A send on the reply handle of request n; ok is whether the send
\* succeeded, which it does unless the receiving end has been dropped.
Reply(n, arg, ok) == Eff(n, "reply", "send", arg, ok, backend_busy, FALSE)

Ok(payload) == [tag |-> "Ok", v |-> payload]
Err(text) == [tag |-> "Err", v |-> text]

\* The messages sent on the reply handle of request n, in order.
RepliesOn(n) ==
    SelectSeq(effects, LAMBDA e : e.req = n /\ e.kind = "reply")
EffectsOf(n) == SelectSeq(effects, LAMBDA e : e.req = n)
OfKind(s, kind) == SelectSeq(s, LAMBDA e : e.kind = kind)

Enqueued == Len(handled) + Len(chan)
RECURSIVE SumSent(_)
SumSent(S) ==
    IF S = {} THEN 0
    ELSE LET p == CHOOSE q \in S : TRUE IN sent[p] + SumSent(S \ {p})

(***************************************************************************)
(* Init: the state WebGPU::new and WGPU::new leave (lib.rs:202-303).       *)
(***************************************************************************)
EmptyMap == [x \in {} |-> 0]
NoLocals == [external_id |-> 0]
NoReturn == [call |-> 0, op |-> "none", id |-> 0]
\* benchmark_function has not been entered (linux.rs:20-22).
BenchIdle ==
    [pc |-> "create_group", enabled |-> FALSE, enable_ret |-> TRUE,
     counters |-> {}, made |-> 0, runs |-> <<>>, timing |-> FALSE,
     result |-> "none"]
\* No stride has been asked for.
NoWide == [pc |-> "idle"]

Init ==
    /\ chan = <<>>
    /\ sent = [p \in Producers |-> 0]
    /\ pc = "recv"
    /\ handled = <<>>
    /\ adapters = <<>>
    /\ devices = <<>>
    /\ global = "live"
    /\ wgpu_image_map = EmptyMap
    /\ map_poisoned = FALSE
    /\ locked_ids = EmptyMap
    /\ next_ext_id = 0
    /\ registry = "free"
    /\ next_image_key = 0
    /\ backend_busy = 0
    /\ locals = NoLocals
    /\ provider = "ok"
    /\ returned = NoReturn
    /\ effects = <<>>
    /\ bench = BenchIdle
    /\ wide = NoWide

(***************************************************************************)
(* Producers: WebGPU(sender).0.send(request) on a clone of the sender.     *)
(* The send fails once the receiver is gone, so nothing is enqueued after  *)
(* the actor thread has ended.                                             *)
(***************************************************************************)
ActorAlive == pc \notin {"done", "panicked", "aborted"}

\* The process the actor and the compositor threads run in has not been
\* ended by the read through a null pointer at lib.rs:811-813.
ProcessAlive == pc # "aborted"

Enqueue(p, r) ==
    /\ ActorAlive
    /\ SumSent(Producers) < MaxReqs
    /\ chan' = Append(chan, [r EXCEPT !.n = Enqueued + 1])
    /\ sent' = [sent EXCEPT ![p] = @ + 1]
    /\ UNCHANGED <<pc, handled, adapters, devices, global, wgpu_image_map,
                   map_poisoned, locked_ids, next_ext_id,
                   registry, next_image_key,
                   backend_busy, locals, provider, returned, effects>>
    /\ UNCHANGED <<bench, wide>>

(***************************************************************************)
(* WGPU::run (lib.rs:305-844).  `while let Ok(msg) = self.receiver.recv()` *)
(* takes the oldest message of the channel, and only between two handlers. *)
(***************************************************************************)
\* A mutant of RecvIndex: the newest message is received first.
RecvNewest(c) == Len(c)
\* IpcReceiver::recv (lib.rs:306): the channel is first in, first out.
RecvIndex(c) == 1

\* A mutant of ActorReady: a new message is received although the handler
\* of the previous one is still waiting in device_poll.
ActorReadyDuringPoll == pc \in {"recv", "present_poll"} /\ chan # <<>>
\* The thread is at the head of the loop and a message is there (lib.rs:306).
ActorReady == pc = "recv" /\ chan # <<>>

Msg == chan[RecvIndex(chan)]
Received ==
    /\ chan' = [i \in 1..(Len(chan) - 1) |->
                   IF i < RecvIndex(chan) THEN chan[i] ELSE chan[i + 1]]
    /\ handled' = Append(handled, Msg)

\* The handler of one message appends its effects and goes back to recv.
Emit(es) == effects' = effects \o es

\* The message whose handler the thread is in: the last one received.
Cur == handled[Len(handled)]

\* The MutexGuard of wgpu_image_map is alive on the compositor thread
\* (lib.rs:895-902), so `self.wgpu_image_map.lock()` of the actor waits.
CompositorHoldsTableLock == provider = "locked"

\* The MutexGuard of wgpu_image_map is alive on the actor thread between two
\* of its steps: only in a present that has copied the bytes read back into
\* the entry and has not yet sent update_image (lib.rs:808-825).  Every other
\* guard of the actor is taken and dropped within one step (lib.rs:532-544,
\* 600-605, 738-749).
ActorHoldsTableLock == pc = "present_txn"

\* lib.rs:363-372: CreateBuffer.  CString::new(label).unwrap() panics on a
\* label that holds a NUL byte, before the backend call: the thread unwinds
\* and drops self, the backend global with it; no guard of the table is
\* alive, so its mutex is not poisoned.
HandleCreateBuffer ==
    /\ ActorReady /\ Msg.kind = "CreateBuffer"
    /\ Received
    /\ IF Msg.p.label_nul
       THEN /\ pc' = "panicked"
            /\ global' = "dropped"
            /\ Emit(<<Eff(Msg.n, "drop_global", "drop", "unwind", TRUE,
                          backend_busy, FALSE)>>)
       ELSE /\ Emit(<<Backend(Msg.n, "device_create_buffer",
                              [device_id |-> Msg.p.device_id,
                               buffer_id |-> Msg.n])>>)
            /\ UNCHANGED <<pc, global>>
    /\ UNCHANGED <<sent, adapters, devices, wgpu_image_map,
                   map_poisoned, locked_ids, next_ext_id,
                   registry, next_image_key,
                   backend_busy,
                   locals, provider, returned>>
    /\ UNCHANGED <<bench, wide>>

\* lib.rs:381-383: CreateContext has been received; the thread goes to take
\* the mutex of the external image registry.
CreateContextRecv ==
    /\ ActorReady /\ Msg.kind = "CreateContext"
    /\ Received
    /\ pc' = "context_lock"
    /\ UNCHANGED <<sent, adapters, devices, global, wgpu_image_map,
                   map_poisoned, locked_ids, next_ext_id, registry,
                   next_image_key, backend_busy, locals, provider, returned,
                   effects>>
    /\ UNCHANGED <<bench, wide>>

\* lib.rs:382-386: self.external_images.lock().expect("Lock poisoned?")
\* .next_id(..).  The lock waits while a thread of the caller holds the
\* mutex; on a poisoned mutex expect panics: the thread unwinds and drops
\* self, no id is taken and nothing is sent, and the table's mutex is not
\* poisoned.  The guard is dropped at the end of the statement.
CreateContextNextId ==
    /\ pc = "context_lock"
    /\ registry # "held"
    /\ IF registry = "poisoned"
       THEN /\ pc' = "panicked"
            /\ global' = "dropped"
            /\ Emit(<<Eff(Cur.n, "drop_global", "drop", "unwind", TRUE,
                          backend_busy, FALSE)>>)
            /\ UNCHANGED <<next_ext_id, locals>>
       ELSE /\ next_ext_id' = next_ext_id + 1
            /\ locals' = [external_id |-> 0, id |-> next_ext_id + 1]
            /\ pc' = "context_send"
            /\ UNCHANGED <<global, effects>>
    /\ UNCHANGED <<chan, sent, handled, adapters, devices, wgpu_image_map,
                   map_poisoned, locked_ids, registry, next_image_key,
                   backend_busy, provider, returned>>
    /\ UNCHANGED <<bench, wide>>

\* lib.rs:387-389: sender.send(id).  The send fails when the requester has
\* dropped the receiving end; the failure is only logged.
CreateContextSend ==
    /\ pc = "context_send"
    /\ \E sent_ok \in BOOLEAN :
          Emit(<<Reply(Cur.n, locals.id, sent_ok)>>)
    /\ locals' = NoLocals
    /\ pc' = "recv"
    /\ UNCHANGED <<chan, sent, handled, adapters, devices, global,
                   wgpu_image_map, map_poisoned, locked_ids, next_ext_id,
                   registry, next_image_key, backend_busy, provider,
                   returned>>
    /\ UNCHANGED <<bench, wide>>

\* lib.rs:381-390: CreateContext.
HandleCreateContext ==
    CreateContextRecv \/ CreateContextNextId \/ CreateContextSend

(***************************************************************************)
(* The caller of WebGPU::new keeps the Arc<Mutex<..>> of the registry it   *)
(* passed (lib.rs:205): one of its threads can hold the mutex, release it, *)
(* or panic while holding it, which poisons the mutex.  The actor holds    *)
(* the mutex only within the step of lib.rs:382-386.                       *)
(***************************************************************************)
RegistryLock ==
    /\ ProcessAlive
    /\ registry = "free"
    /\ registry' = "held"
    /\ UNCHANGED <<chan, sent, pc, handled, adapters, devices, global,
                   wgpu_image_map, map_poisoned, locked_ids, next_ext_id,
                   next_image_key, backend_busy, locals, provider, returned,
                   effects>>
    /\ UNCHANGED <<bench, wide>>

RegistryUnlock ==
    /\ ProcessAlive
    /\ registry = "held"
    /\ registry' = "free"
    /\ UNCHANGED <<chan, sent, pc, handled, adapters, devices, global,
                   wgpu_image_map, map_poisoned, locked_ids, next_ext_id,
                   next_image_key, backend_busy, locals, provider, returned,
                   effects>>
    /\ UNCHANGED <<bench, wide>>

RegistryPoison ==
    /\ ProcessAlive
    /\ registry = "held"
    /\ registry' = "poisoned"
    /\ UNCHANGED <<chan, sent, pc, handled, adapters, devices, global,
                   wgpu_image_map, map_poisoned, locked_ids, next_ext_id,
                   next_image_key, backend_busy, locals, provider, returned,
                   effects>>
    /\ UNCHANGED <<bench, wide>>

CallerRegistry == RegistryLock \/ RegistryUnlock \/ RegistryPoison

\* The PresentationData built at lib.rs:534-543.
NewPresentationData(m) ==
    LET width == m.p.size[1]
        height == m.p.size[2]
        buffer_stride == BufferStride(width)
    IN [device_id |-> m.p.device_id,
        queue_id |-> m.p.device_id,
        data |-> VecFill(255, BufferSize(buffer_stride, height)),
        size |-> m.p.size,
        buffer_id |-> m.n,
        buffer_stride |-> buffer_stride,
        image_desc |-> [size |-> m.p.size],
        image_data |-> "image_data"]

\* HashMap::insert
MapInsert(map, k, v) ==
    [x \in (DOMAIN map) \cup {k} |-> IF x = k THEN v ELSE map[x]]
\* A mutant of MapRemove: the whole map is cleared.
MapRemoveAll(map, k) == EmptyMap
\* A mutant of MapRemove: the entry is left in the map.
MapRemoveNothing(map, k) == map
\* HashMap::remove
MapRemove(map, k) == [x \in (DOMAIN map) \ {k} |-> map[x]]

\* lib.rs:520-531: CreateSwapChain is received and the stride computed.
CreateSwapChainRecv ==
    /\ ActorReady /\ Msg.kind = "CreateSwapChain"
    /\ Received
    /\ pc' = "create_insert"
    /\ UNCHANGED <<sent, adapters, devices, global, wgpu_image_map,
                   map_poisoned, locked_ids, next_ext_id,
                   registry, next_image_key,
                   backend_busy, locals, provider, returned, effects>>
    /\ UNCHANGED <<bench, wide>>

\* lib.rs:532-544: the mutex is taken, which waits while the compositor
\* holds it, and the entry is inserted, replacing any entry of the id, under
\* a guard that is dropped at the end of the statement.
CreateSwapChainInsert ==
    /\ pc = "create_insert"
    /\ ~CompositorHoldsTableLock
    /\ wgpu_image_map' = MapInsert(wgpu_image_map, Cur.p.external_id,
                                   NewPresentationData(Cur))
    /\ Emit(<<Table(Cur.n, "insert", Cur.p.external_id)>>)
    /\ pc' = "create_buffer"
    /\ UNCHANGED <<chan, sent, handled, adapters, devices, global,
                   map_poisoned, locked_ids, next_ext_id,
                   registry, next_image_key,
                   backend_busy, locals, provider, returned>>
    /\ UNCHANGED <<bench, wide>>

\* lib.rs:545-557: the staging buffer is created on the backend.
CreateSwapChainBuffer ==
    /\ pc = "create_buffer"
    /\ LET pd == NewPresentationData(Cur) IN
       Emit(<<Backend(Cur.n, "device_create_buffer",
                      [device_id |-> pd.device_id,
                       size |-> BufferSize(pd.buffer_stride, pd.size[2]),
                       buffer_id |-> pd.buffer_id])>>)
    /\ pc' = "create_key"
    /\ UNCHANGED <<chan, sent, handled, adapters, devices, global,
                   wgpu_image_map, map_poisoned, locked_ids, next_ext_id,
                   registry,
                   next_image_key, backend_busy, locals, provider, returned>>
    /\ UNCHANGED <<bench, wide>>

\* lib.rs:559-562: an image key is generated and sent on the request's
\* sender; a failed send is only logged.
CreateSwapChainKey ==
    /\ pc = "create_key"
    /\ next_image_key' = next_image_key + 1
    /\ \E sent_ok \in BOOLEAN :
          Emit(<<Reply(Cur.n, next_image_key + 1, sent_ok)>>)
    /\ pc' = "create_add_image"
    /\ UNCHANGED <<chan, sent, handled, adapters, devices, global,
                   wgpu_image_map, map_poisoned, locked_ids, next_ext_id,
                   registry,
                   backend_busy, locals, provider, returned>>
    /\ UNCHANGED <<bench, wide>>

\* lib.rs:564-567: the add_image transaction is sent.
CreateSwapChainAddImage ==
    /\ pc = "create_add_image"
    /\ LET pd == NewPresentationData(Cur) IN
       Emit(<<Txn(Cur.n, "add_image",
                  [key |-> next_image_key, desc |-> pd.image_desc,
                   data |-> pd.image_data], FALSE)>>)
    /\ pc' = "recv"
    /\ UNCHANGED <<chan, sent, handled, adapters, devices, global,
                   wgpu_image_map, map_poisoned, locked_ids, next_ext_id,
                   registry,
                   next_image_key, backend_busy, locals, provider, returned>>
    /\ UNCHANGED <<bench, wide>>

\* lib.rs:520-568: CreateSwapChain, statement by statement.
HandleCreateSwapChain ==
    \/ CreateSwapChainRecv
    \/ CreateSwapChainInsert
    \/ CreateSwapChainBuffer
    \/ CreateSwapChainKey
    \/ CreateSwapChainAddImage

\* lib.rs:596-599: DestroySwapChain is received.
DestroySwapChainRecv ==
    /\ ActorReady /\ Msg.kind = "DestroySwapChain"
    /\ Received
    /\ pc' = "destroy_remove"
    /\ UNCHANGED <<sent, adapters, devices, global, wgpu_image_map,
                   map_poisoned, locked_ids, next_ext_id,
                   registry, next_image_key,
                   backend_busy, locals, provider, returned, effects>>
    /\ UNCHANGED <<bench, wide>>

\* lib.rs:600-605: the mutex is taken, which waits while the compositor
\* holds it, and the entry removed under a guard dropped at the end of the
\* statement.
\* remove(&external_id).unwrap() panics on an id with no entry while the
\* guard is alive: the thread unwinds (dropping self, and with it the
\* backend global) and the mutex is poisoned.
DestroySwapChainRemove ==
    /\ pc = "destroy_remove"
    /\ ~CompositorHoldsTableLock
    /\ LET x == Cur.p.external_id IN
       IF x \in DOMAIN wgpu_image_map
       THEN /\ wgpu_image_map' = MapRemove(wgpu_image_map, x)
            /\ Emit(<<Table(Cur.n, "remove", x)>>)
            /\ locals' = [external_id |-> x,
                          buffer_id |-> wgpu_image_map[x].buffer_id]
            /\ pc' = "destroy_buffer"
            /\ UNCHANGED <<global, map_poisoned>>
       ELSE /\ pc' = "panicked"
            /\ map_poisoned' = TRUE
            /\ global' = "dropped"
            /\ Emit(<<Eff(Cur.n, "drop_global", "drop", "unwind", TRUE,
                          backend_busy, FALSE)>>)
            /\ UNCHANGED <<wgpu_image_map, locals>>
    /\ UNCHANGED <<chan, sent, handled, adapters, devices, locked_ids,
                   next_ext_id,
                   registry, next_image_key, backend_busy, provider,
                   returned>>
    /\ UNCHANGED <<bench, wide>>

\* lib.rs:606-607: the staging buffer of the removed entry is destroyed.
DestroySwapChainBuffer ==
    /\ pc = "destroy_buffer"
    /\ Emit(<<Backend(Cur.n, "buffer_destroy",
                      [buffer_id |-> locals.buffer_id])>>)
    /\ pc' = "destroy_delete_image"
    /\ UNCHANGED <<chan, sent, handled, adapters, devices, global,
                   wgpu_image_map, map_poisoned, locked_ids, next_ext_id,
                   registry,
                   next_image_key, backend_busy, locals, provider, returned>>
    /\ UNCHANGED <<bench, wide>>

\* lib.rs:608-611: the delete_image transaction is sent.
DestroySwapChainDeleteImage ==
    /\ pc = "destroy_delete_image"
    /\ Emit(<<Txn(Cur.n, "delete_image", [key |-> Cur.p.image_key], FALSE)>>)
    /\ locals' = NoLocals
    /\ pc' = "recv"
    /\ UNCHANGED <<chan, sent, handled, adapters, devices, global,
                   wgpu_image_map, map_poisoned, locked_ids, next_ext_id,
                   registry,
                   next_image_key, backend_busy, provider, returned>>
    /\ UNCHANGED <<bench, wide>>

\* lib.rs:596-612: DestroySwapChain, statement by statement.
HandleDestroySwapChain ==
    \/ DestroySwapChainRecv
    \/ DestroySwapChainRemove
    \/ DestroySwapChainBuffer
    \/ DestroySwapChainDeleteImage

\* A mutant of HandleExit: a failed script notification returns before the
\* acknowledgement is sent.
HandleExitNoAckOnFailure ==
    /\ pc = "recv" /\ chan # <<>>
    /\ chan[1].kind = "Exit"
    /\ chan' = Tail(chan)
    /\ handled' = Append(handled, chan[1])
    /\ \E script_ok \in BOOLEAN : \E sent_ok \in BOOLEAN :
          effects' = effects \o
             <<[req |-> chan[1].n, kind |-> "script", op |-> "send",
                arg |-> "WebGPUMsg::Exit", ok |-> script_ok,
                busy |-> backend_busy, guard |-> FALSE],
               [req |-> chan[1].n, kind |-> "drop_global", op |-> "drop",
                arg |-> "Exit", ok |-> TRUE, busy |-> backend_busy,
                guard |-> FALSE]>>
             \o (IF script_ok
                 THEN <<[req |-> chan[1].n, kind |-> "reply", op |-> "send",
                         arg |-> "()", ok |-> sent_ok, busy |-> backend_busy,
                         guard |-> FALSE]>>
                 ELSE <<>>)
    /\ global' = "dropped"
    /\ pc' = "done"
    /\ UNCHANGED <<sent, adapters, devices, wgpu_image_map, map_poisoned,
                   locked_ids, next_ext_id,
                   registry, next_image_key, backend_busy,
                   locals, provider, returned>>
    /\ UNCHANGED <<bench, wide>>

\* lib.rs:617-626: Exit.  The send on script_sender may fail (the script
\* end may be gone), and so may the acknowledgement (the receiving end of
\* the request's sender may be gone); either failure is only logged.
HandleExit ==
    /\ ActorReady /\ Msg.kind = "Exit"
    /\ Received
    /\ \E script_ok \in BOOLEAN : \E sent_ok \in BOOLEAN :
          Emit(<<Eff(Msg.n, "script", "send", "WebGPUMsg::Exit", script_ok,
                     backend_busy, FALSE),
                 Eff(Msg.n, "drop_global", "drop", "Exit", TRUE,
                     backend_busy, FALSE),
                 Reply(Msg.n, "()", sent_ok)>>)
    /\ global' = "dropped"
    /\ pc' = "done"
    /\ UNCHANGED <<sent, adapters, devices, wgpu_image_map, map_poisoned,
                   locked_ids, next_ext_id,
                   registry, next_image_key, backend_busy,
                   locals, provider, returned>>
    /\ UNCHANGED <<bench, wide>>

\* lib.rs:627-663: RequestAdapter.  The None arm ends with `return`, which
\* leaves run(): the thread ends and self (with the backend global) is
\* dropped, without the script notification of Exit.  A failed send of the
\* response is only logged.
HandleRequestAdapter ==
    /\ ActorReady /\ Msg.kind = "RequestAdapter"
    /\ Received
    /\ \E sent_ok \in BOOLEAN :
       LET adapter_id == pick_adapter(Msg.p.ids)
           picked == Backend(Msg.n, "pick_adapter", Msg.p.ids)
       IN IF adapter_id = NoAdapter
          THEN /\ Emit(<<picked,
                         Reply(Msg.n, Err("Failed to get webgpu adapter"),
                               sent_ok),
                         Eff(Msg.n, "drop_global", "drop", "return", TRUE,
                             backend_busy, FALSE)>>)
               /\ pc' = "done"
               /\ global' = "dropped"
               /\ UNCHANGED adapters
          ELSE /\ adapters' = Append(adapters, adapter_id)
               /\ Emit(<<picked,
                         Backend(Msg.n, "adapter_get_info", adapter_id),
                         Reply(Msg.n, Ok([response |-> "RequestAdapter",
                                          adapter_name |-> adapter_name(adapter_id),
                                          adapter_id |-> adapter_id,
                                          channel |-> WGPU_sender]),
                               sent_ok)>>)
               /\ UNCHANGED <<pc, global>>
    /\ UNCHANGED <<sent, devices, wgpu_image_map, map_poisoned, locked_ids,
                   next_ext_id, registry, next_image_key, backend_busy,
                   locals, provider, returned>>
    /\ UNCHANGED <<bench, wide>>

\* lib.rs:678-687: the response RequestDevice sends, built from the id the
\* backend call returned; device and queue share the id.
RequestDeviceReply(id) ==
    Ok([response |-> "RequestDevice", device_id |-> id, queue_id |-> id])

\* lib.rs:664-693: RequestDevice.  adapter_request_device returns the
\* device id whether or not the backend could open the device; a failed
\* send of the response is only logged.
HandleRequestDevice ==
    /\ ActorReady /\ Msg.kind = "RequestDevice"
    /\ Received
    /\ \E backend_ok \in BOOLEAN : \E sent_ok \in BOOLEAN :
         LET id == Msg.n IN
         /\ devices' = Append(devices, id)
         /\ Emit(<<Eff(Msg.n, "backend", "adapter_request_device",
                       [adapter_id |-> Msg.p.adapter_id, device_id |-> id],
                       backend_ok, backend_busy, FALSE),
                   Reply(Msg.n, RequestDeviceReply(id), sent_ok)>>)
    /\ UNCHANGED <<sent, pc, adapters, global, wgpu_image_map, map_poisoned,
                   locked_ids, next_ext_id,
                   registry, next_image_key, backend_busy,
                   locals, provider, returned>>
    /\ UNCHANGED <<bench, wide>>

\* A mutant of PresentMissing: the missing entry is unwrapped, which ends
\* the actor thread.
PresentMissingPanics ==
    /\ Cur.p.external_id \notin DOMAIN wgpu_image_map
    /\ pc' = "panicked"
    /\ UNCHANGED locals

\* lib.rs:736-749, else arm: an id with no entry is logged and skipped
\* (`continue`).
PresentMissing ==
    /\ Cur.p.external_id \notin DOMAIN wgpu_image_map
    /\ pc' = "recv"
    /\ UNCHANGED locals

\* lib.rs:736-751: the entry is read under a guard that is dropped at the
\* end of the block; buffer_size is computed from what was read.
PresentFound ==
    /\ Cur.p.external_id \in DOMAIN wgpu_image_map
    /\ LET pd == wgpu_image_map[Cur.p.external_id] IN
       locals' = [external_id |-> Cur.p.external_id, size |-> pd.size,
                  device_id |-> pd.device_id, queue_id |-> pd.queue_id,
                  buffer_id |-> pd.buffer_id,
                  buffer_stride |-> pd.buffer_stride,
                  buffer_size |-> BufferSize(pd.buffer_stride, pd.size[2]),
                  calls |-> 0, buf_data |-> "none"]
    /\ pc' = "present_calls"

\* lib.rs:724-735: SwapChainPresent is received.
PresentRecv ==
    /\ ActorReady /\ Msg.kind = "SwapChainPresent"
    /\ Received
    /\ pc' = "present_first"
    /\ UNCHANGED <<sent, adapters, devices, global, wgpu_image_map,
                   map_poisoned, locked_ids, next_ext_id,
                   registry, next_image_key,
                   backend_busy, locals, provider, returned, effects>>
    /\ UNCHANGED <<bench, wide>>

\* lib.rs:736-751: the mutex is taken, which waits while the compositor
\* holds it, and the entry looked up.
PresentLookup ==
    /\ pc = "present_first"
    /\ ~CompositorHoldsTableLock
    /\ (PresentFound \/ PresentMissing)
    /\ UNCHANGED <<chan, sent, handled, adapters, devices, global,
                   wgpu_image_map, map_poisoned, locked_ids, next_ext_id,
                   registry,
                   next_image_key, backend_busy, effects, provider, returned>>
    /\ UNCHANGED <<bench, wide>>

\* lib.rs:752-805: the backend calls of a present up to the blocking wait,
\* in the order the handler makes them.
PresentCalls(m, l) ==
    <<Backend(m.n, "device_create_command_encoder",
              [device_id |-> l.device_id, encoder_id |-> m.n]),
      Backend(m.n, "command_encoder_copy_texture_to_buffer",
              [encoder_id |-> m.n, texture |-> m.p.texture_id,
               buffer |-> l.buffer_id, bytes_per_row |-> l.buffer_stride,
               copy_size |-> l.size]),
      Backend(m.n, "command_encoder_finish", m.n),
      Backend(m.n, "queue_submit",
              [queue_id |-> l.queue_id, command_buffers |-> <<m.n>>]),
      Backend(m.n, "buffer_map_async",
              [buffer_id |-> l.buffer_id, range |-> <<0, l.buffer_size>>]),
      Backend(m.n, "device_poll", l.device_id)>>

\* lib.rs:752-805: the next backend call of the present is made; the last
\* one, device_poll, blocks until the backend is done.
PresentCall ==
    /\ pc = "present_calls"
    /\ LET calls == PresentCalls(Cur, locals)
           k == locals.calls + 1
       IN /\ Emit(<<calls[k]>>)
          /\ locals' = [locals EXCEPT !.calls = k]
          /\ IF k = Len(calls)
             THEN pc' = "present_poll" /\ backend_busy' = backend_busy + 1
             ELSE UNCHANGED <<pc, backend_busy>>
    /\ UNCHANGED <<chan, sent, handled, adapters, devices, global,
                   wgpu_image_map, map_poisoned, locked_ids, next_ext_id,
                   registry,
                   next_image_key, provider, returned>>
    /\ UNCHANGED <<bench, wide>>

\* lib.rs:724-805: SwapChainPresent up to the blocking device_poll.
HandlePresentBegin == PresentRecv \/ PresentLookup \/ PresentCall

\* lib.rs:790-807: device_poll returns, having run the map callback, which
\* only logs the status (lib.rs:790-797), and the mapped range is asked
\* for.  The mapping succeeded and buf_data points to buffer_size bytes, or
\* it failed and buf_data is null; the handler goes on in both cases.
PresentPolled ==
    /\ pc = "present_poll"
    /\ \E mapped \in BOOLEAN :
          /\ Emit(<<Eff(Cur.n, "backend", "buffer_get_mapped_range",
                        locals.buffer_id, mapped, backend_busy - 1, FALSE)>>)
          /\ locals' = [locals EXCEPT
                           !.buf_data = IF mapped THEN "mapped" ELSE "null"]
    /\ backend_busy' = backend_busy - 1
    /\ pc' = "present_lookup"
    /\ UNCHANGED <<chan, sent, handled, adapters, devices, global,
                   wgpu_image_map, map_poisoned, locked_ids, next_ext_id,
                   registry,
                   next_image_key, provider, returned>>
    /\ UNCHANGED <<bench, wide>>

\* lib.rs:811-813: present_data.data = slice::from_raw_parts(..).to_vec()
PresentReadBack(map, x, bytes) == [map EXCEPT ![x].data = bytes]

\* lib.rs:811-813: slice::from_raw_parts(buf_data, buffer_size) is read
\* whatever the mapping did.  A null buf_data is undefined behaviour: a
\* build with debug assertions aborts on the precondition of
\* from_raw_parts, a build without them reads buffer_size bytes at address
\* 0 and dies of the fault when buffer_size is not 0, and copies nothing
\* when it is 0.
ReadFaults(l) == l.buf_data = "null"
ReadCopies(l) == l.buf_data = "mapped" \/ l.buffer_size = 0

\* lib.rs:808-813: the entry is looked up again, which waits for the mutex;
\* with the entry found the mapped bytes are copied into it, and the guard,
\* a temporary of the `if let` scrutinee, stays alive.  With no entry
\* (lib.rs:823-825) the guard is dropped and the buffer unmapped.
PresentUpdate ==
    /\ pc = "present_lookup"
    /\ ~CompositorHoldsTableLock
    /\ LET x == locals.external_id IN
       IF x \in DOMAIN wgpu_image_map
       THEN \E b \in MappedBytes :
              LET bytes == VecFill(b, locals.buffer_size) IN
              /\ ReadCopies(locals)
              /\ wgpu_image_map' = PresentReadBack(wgpu_image_map, x, bytes)
              /\ Emit(<<Eff(Cur.n, "table", "update",
                            [external_id |-> x, data |-> bytes], TRUE,
                            backend_busy, TRUE)>>)
              /\ pc' = "present_txn"
       ELSE /\ pc' = "present_unmap"
            /\ UNCHANGED <<wgpu_image_map, effects>>
    /\ UNCHANGED <<chan, sent, handled, adapters, devices, global,
                   map_poisoned, locked_ids, next_ext_id,
                   registry, next_image_key,
                   backend_busy, locals, provider, returned>>
    /\ UNCHANGED <<bench, wide>>

\* lib.rs:808-813: the entry is found and the read through the null
\* buf_data ends the process, by abort or by fault: nothing unwinds, so
\* the global is not dropped and no mutex is poisoned, and no thread of the
\* process takes another step; update_image is not sent and the buffer is
\* not unmapped.
PresentReadNull ==
    /\ pc = "present_lookup"
    /\ ~CompositorHoldsTableLock
    /\ locals.external_id \in DOMAIN wgpu_image_map
    /\ ReadFaults(locals)
    /\ pc' = "aborted"
    /\ UNCHANGED <<chan, sent, handled, adapters, devices, global,
                   wgpu_image_map, map_poisoned, locked_ids, next_ext_id,
                   registry, next_image_key, backend_busy, locals, provider,
                   returned, effects>>
    /\ UNCHANGED <<bench, wide>>

\* lib.rs:814-825: update_image is sent with the guard alive; the guard is
\* dropped at the end of the `if let`.
PresentUpdateImage ==
    /\ pc = "present_txn"
    /\ LET pd == wgpu_image_map[locals.external_id] IN
       Emit(<<Txn(Cur.n, "update_image",
                  [key |-> Cur.p.image_key, desc |-> pd.image_desc,
                   data |-> pd.image_data, dirty |-> "All"], TRUE)>>)
    /\ pc' = "present_unmap"
    /\ UNCHANGED <<chan, sent, handled, adapters, devices, global,
                   wgpu_image_map, map_poisoned, locked_ids, next_ext_id,
                   registry,
                   next_image_key, backend_busy, locals, provider, returned>>
    /\ UNCHANGED <<bench, wide>>

\* lib.rs:826: the staging buffer is unmapped, on both arms.
PresentUnmap ==
    /\ pc = "present_unmap"
    /\ Emit(<<Backend(Cur.n, "buffer_unmap", locals.buffer_id)>>)
    /\ locals' = NoLocals
    /\ pc' = "recv"
    /\ UNCHANGED <<chan, sent, handled, adapters, devices, global,
                   wgpu_image_map, map_poisoned, locked_ids, next_ext_id,
                   registry,
                   next_image_key, backend_busy, provider, returned>>
    /\ UNCHANGED <<bench, wide>>

\* lib.rs:805-827: SwapChainPresent from the return of device_poll on.
HandlePresentPolled ==
    \/ PresentPolled
    \/ PresentUpdate
    \/ PresentReadNull
    \/ PresentUpdateImage
    \/ PresentUnmap

(***************************************************************************)
(* WGPUExternalImages (lib.rs:879-914), called by the compositor thread.   *)
(* provider is where that thread is: ok (outside lock), locking (lock was  *)
(* called and waits for the mutex), locked (it holds the guard), panicked. *)
(***************************************************************************)
\* lib.rs:894-895: the compositor enters lock and asks for the mutex.
LockCall(id) ==
    /\ ProcessAlive
    /\ provider = "ok"
    /\ returned.call < MaxCalls
    /\ provider' = "locking"
    /\ returned' = [call |-> returned.call + 1, op |-> "lock_called",
                    id |-> id]
    /\ UNCHANGED <<chan, sent, pc, handled, adapters, devices, global,
                   wgpu_image_map, map_poisoned, locked_ids, next_ext_id,
                   registry,
                   next_image_key, backend_busy, locals, effects>>
    /\ UNCHANGED <<bench, wide>>

\* lib.rs:895-901: the mutex is free and the pending call gets it.
\* images.lock().unwrap() panics on a poisoned mutex; otherwise the entry's
\* size and a clone of its data are taken, or (0, 0) and no bytes for an id
\* with no entry, while the guard is alive.
LockAcquire ==
    /\ ProcessAlive
    /\ provider = "locking"
    /\ ~ActorHoldsTableLock
    /\ IF map_poisoned
       THEN /\ provider' = "panicked"
            /\ returned' = [call |-> returned.call, op |-> "lock_panicked",
                            id |-> returned.id]
       ELSE LET id == returned.id
                found == id \in DOMAIN wgpu_image_map
                size == IF found THEN wgpu_image_map[id].size ELSE <<0, 0>>
                data == IF found THEN wgpu_image_map[id].data ELSE EmptyVec
            IN /\ provider' = "locked"
               /\ returned' = [call |-> returned.call, op |-> "lock_holding",
                               id |-> id, data |-> data, size |-> size]
    /\ UNCHANGED <<chan, sent, pc, handled, adapters, devices, global,
                   wgpu_image_map, map_poisoned, locked_ids, next_ext_id,
                   registry,
                   next_image_key, backend_busy, locals, effects>>
    /\ UNCHANGED <<bench, wide>>

\* A mutant of LockedSlice: the slice handed out is a view of the bytes of
\* the table entry, not of the copy kept in locked_ids.
LockedSliceOfTable(id) ==
    IF id \in DOMAIN wgpu_image_map THEN wgpu_image_map[id].data
    ELSE EmptyVec

\* lib.rs:906-908: the bytes the compositor sees through the slice lock
\* returned, self.locked_ids.get(&id).unwrap().as_slice().
LockedSlice(id) == locked_ids[id]

\* lib.rs:902-909: the guard is dropped, the clone is stored in locked_ids
\* and a slice of it is returned with the size.
LockReturn ==
    /\ ProcessAlive
    /\ provider = "locked"
    /\ UNCHANGED <<chan, sent, pc, handled, adapters, devices, global,
                   wgpu_image_map, map_poisoned, next_ext_id,
                   registry, next_image_key,
                   backend_busy, locals, effects>>
    /\ locked_ids' = MapInsert(locked_ids, returned.id, returned.data)
    /\ \E id \in ExternalIds :
          /\ id = returned.id
          /\ returned' = [call |-> returned.call, op |-> "lock", id |-> id,
                          data |-> LockedSlice(id)', size |-> returned.size]
    /\ provider' = "ok"
    /\ UNCHANGED <<bench, wide>>

\* lib.rs:894-909: lock, statement by statement.
Lock == (\E id \in ExternalIds : LockCall(id)) \/ LockAcquire \/ LockReturn

\* lib.rs:911-913: unlock removes the id's bytes and takes no lock.
Unlock(id) ==
    /\ ProcessAlive
    /\ provider = "ok"
    /\ returned.call < MaxCalls
    /\ locked_ids' = MapRemove(locked_ids, id)
    /\ returned' = [call |-> returned.call + 1, op |-> "unlock", id |-> id]
    /\ UNCHANGED <<chan, sent, pc, handled, adapters, devices, global,
                   wgpu_image_map, map_poisoned, next_ext_id,
                   registry, next_image_key,
                   backend_busy, locals, provider, effects>>
    /\ UNCHANGED <<bench, wide>>

(***************************************************************************)
(* The specification of the actor and its producers.                       *)
(***************************************************************************)
Produce == \E p \in Producers : \E r \in Requests : Enqueue(p, r)

Next ==
    \/ Produce
    \/ HandleCreateBuffer
    \/ HandleCreateContext
    \/ HandleCreateSwapChain
    \/ HandleDestroySwapChain
    \/ HandleExit
    \/ HandleRequestAdapter
    \/ HandleRequestDevice
    \/ HandlePresentBegin
    \/ HandlePresentPolled
    \/ CallerRegistry

Spec == Init /\ [][Next]_vars

TypeOK ==
    /\ pc \in {"recv", "context_lock", "context_send", "create_insert",
               "create_buffer", "create_key",
               "create_add_image", "destroy_remove", "destroy_buffer",
               "destroy_delete_image", "present_first", "present_calls",
               "present_poll", "present_lookup", "present_txn",
               "present_unmap", "done", "panicked", "aborted"}
    /\ provider \in {"ok", "locking", "locked", "panicked"}
    /\ registry \in {"free", "held", "poisoned"}
    /\ ~(ActorHoldsTableLock /\ CompositorHoldsTableLock)
    /\ backend_busy \in 0..1
    /\ Enqueued <= MaxReqs
    /\ Enqueued = SumSent(Producers)

(***************************************************************************)
(* The specification of the stride computation: one CreateSwapChain of     *)
(* every width and height of the bounds, handled on a fresh actor.         *)
(***************************************************************************)
InitStride ==
    /\ \E w \in 0..MaxWidth : \E h \in 0..MaxHeight :
         \E d \in DeviceIds : \E x \in ExternalIds :
           chan = <<[n |-> 1, kind |-> "CreateSwapChain",
                     p |-> [device_id |-> d, external_id |-> x,
                            size |-> <<w, h>>]]>>
    /\ sent = [p \in Producers |-> IF p = "script_a" THEN 1 ELSE 0]
    /\ pc = "recv"
    /\ handled = <<>>
    /\ adapters = <<>>
    /\ devices = <<>>
    /\ global = "live"
    /\ wgpu_image_map = EmptyMap
    /\ map_poisoned = FALSE
    /\ locked_ids = EmptyMap
    /\ next_ext_id = 0
    /\ registry = "free"
    /\ next_image_key = 0
    /\ backend_busy = 0
    /\ locals = NoLocals
    /\ provider = "ok"
    /\ returned = NoReturn
    /\ effects = <<>>
    /\ bench = BenchIdle
    /\ wide = NoWide

NextStride == HandleCreateSwapChain

SpecStride == InitStride /\ [][NextStride]_vars

(***************************************************************************)
(* The specification of the swapchain lifecycle: one producer sends only   *)
(* swapchain requests and CreateBuffer, and sends more of them.            *)
(***************************************************************************)
ChainRequests ==
    CreateBufferReqs \cup CreateSwapChainReqs \cup DestroySwapChainReqs
    \cup SwapChainPresentReqs

EnqueueChain(p, r) ==
    /\ ActorAlive
    /\ SumSent(Producers) < MaxChainReqs
    /\ chan' = Append(chan, [r EXCEPT !.n = Enqueued + 1])
    /\ sent' = [sent EXCEPT ![p] = @ + 1]
    /\ UNCHANGED <<pc, handled, adapters, devices, global, wgpu_image_map,
                   map_poisoned, locked_ids, next_ext_id,
                   registry, next_image_key,
                   backend_busy, locals, provider, returned, effects>>
    /\ UNCHANGED <<bench, wide>>

ProduceChain == \E r \in ChainRequests : EnqueueChain("script_a", r)

NextChain ==
    \/ ProduceChain
    \/ HandleCreateBuffer
    \/ HandleCreateSwapChain
    \/ HandleDestroySwapChain
    \/ HandlePresentBegin
    \/ HandlePresentPolled

SpecChain == Init /\ [][NextChain]_vars

(***************************************************************************)
(* The specification of the external image provider: the compositor calls  *)
(* lock and unlock on WGPUExternalImages while the actor handles swapchain *)
(* requests on the shared table.                                           *)
(***************************************************************************)
ImageRequests ==
    CreateSwapChainReqs \cup DestroySwapChainReqs \cup SwapChainPresentReqs

EnqueueImage(p, r) ==
    /\ ActorAlive
    /\ SumSent(Producers) < MaxImageReqs
    /\ chan' = Append(chan, [r EXCEPT !.n = Enqueued + 1])
    /\ sent' = [sent EXCEPT ![p] = @ + 1]
    /\ UNCHANGED <<pc, handled, adapters, devices, global, wgpu_image_map,
                   map_poisoned, locked_ids, next_ext_id,
                   registry, next_image_key,
                   backend_busy, locals, provider, returned, effects>>
    /\ UNCHANGED <<bench, wide>>

ProduceImage == \E r \in ImageRequests : EnqueueImage("script_a", r)

CompositorLock == Lock
CompositorUnlock == \E id \in ExternalIds : Unlock(id)

NextImages ==
    \/ ProduceImage
    \/ HandleCreateSwapChain
    \/ HandleDestroySwapChain
    \/ HandlePresentBegin
    \/ HandlePresentPolled
    \/ CompositorLock
    \/ CompositorUnlock

SpecImages == Init /\ [][NextImages]_vars

(***************************************************************************)
(* The specification of the provider under fair scheduling: the actor      *)
(* thread and a compositor thread that is inside lock are scheduled again  *)
(* and again.                                                              *)
(***************************************************************************)
ActorImages ==
    \/ HandleCreateSwapChain
    \/ HandleDestroySwapChain
    \/ HandlePresentBegin
    \/ HandlePresentPolled

NextLive ==
    \/ ProduceImage
    \/ ActorImages
    \/ CompositorLock
    \/ CompositorUnlock

SpecLive ==
    /\ Init /\ [][NextLive]_vars
    /\ WF_vars(ActorImages)
    /\ WF_vars(LockAcquire) /\ WF_vars(LockReturn)

(***************************************************************************)
(* benchmark_function of benchlib/src/measure/perf_counter/linux.rs        *)
(* (lines 17-107).  bench.pc is the statement about to run; bench.runs     *)
(* records every execution of a benchmarked closure: which closure it was, *)
(* whether the perf_event group was enabled and whether the Instant of the *)
(* wall-time measurement had been taken and not yet read.                  *)
(***************************************************************************)
\* The state of the webgpu actor and provider, which benchmark_function
\* does not touch.
webgpu_vars ==
    <<chan, sent, pc, handled, adapters, devices, global, wgpu_image_map,
      map_poisoned, locked_ids, next_ext_id, registry, next_image_key,
      backend_busy, locals, provider, returned, effects, wide>>

\* linux.rs:94-98: the hardware events prepare_counters asks for.
Hardware ==
    {"CPU_CYCLES", "INSTRUCTIONS", "BRANCH_MISSES", "CACHE_MISSES",
     "CACHE_REFERENCES"}

\* The `?` of a failed call: benchmark_function returns the error.
BenchErr(b) == [b EXCEPT !.pc = "done", !.result = "Err"]

\* linux.rs:23, 63-79: create_group()?
BenchCreateGroup ==
    /\ bench.pc = "create_group"
    /\ \E ok \in BOOLEAN :
          bench' = IF ok THEN [bench EXCEPT !.pc = "prepare_counters"]
                   ELSE BenchErr(bench)
    /\ UNCHANGED webgpu_vars

\* linux.rs:24, 81-107: prepare_counters never fails; an event the CPU does
\* not support gives no counter.
BenchPrepareCounters ==
    /\ bench.pc = "prepare_counters"
    /\ \E cs \in SUBSET Hardware :
          bench' = [bench EXCEPT !.pc = "construct_perf", !.counters = cs]
    /\ UNCHANGED webgpu_vars

\* linux.rs:27 and 43: let func = benchmark_constructor();
BenchConstruct ==
    /\ bench.pc \in {"construct_perf", "construct_wall"}
    /\ bench' = [bench EXCEPT
                    !.made = @ + 1,
                    !.pc = IF bench.pc = "construct_perf" THEN "enable"
                           ELSE "start_timer"]
    /\ UNCHANGED webgpu_vars

\* linux.rs:30: let enable_ret = group.enable(); the result is kept.
BenchEnable ==
    /\ bench.pc = "enable"
    /\ \E ok \in BOOLEAN :
          bench' = [bench EXCEPT !.pc = "run_perf", !.enabled = ok,
                                 !.enable_ret = ok]
    /\ UNCHANGED webgpu_vars

\* linux.rs:31 and 46: let output = func(); the closure just constructed is
\* consumed.
BenchRun ==
    /\ bench.pc \in {"run_perf", "run_wall"}
    /\ bench' = [bench EXCEPT
                    !.runs = Append(@, [closure |-> bench.made,
                                        counting |-> bench.enabled,
                                        timed |-> bench.timing]),
                    !.pc = IF bench.pc = "run_perf" THEN "disable"
                           ELSE "stop_timer"]
    /\ UNCHANGED webgpu_vars

\* linux.rs:32: group.disable()?
BenchDisable ==
    /\ bench.pc = "disable"
    /\ \E ok \in BOOLEAN :
          bench' = IF ok THEN [bench EXCEPT !.pc = "check_enable",
                                            !.enabled = FALSE]
                   ELSE BenchErr(bench)
    /\ UNCHANGED webgpu_vars

\* linux.rs:38: enable_ret?
BenchCheckEnable ==
    /\ bench.pc = "check_enable"
    /\ bench' = IF bench.enable_ret THEN [bench EXCEPT !.pc = "read"]
                ELSE BenchErr(bench)
    /\ UNCHANGED webgpu_vars

\* linux.rs:40: let measurement = group.read()?
BenchRead ==
    /\ bench.pc = "read"
    /\ \E ok \in BOOLEAN :
          bench' = IF ok THEN [bench EXCEPT !.pc = "construct_wall"]
                   ELSE BenchErr(bench)
    /\ UNCHANGED webgpu_vars

\* linux.rs:45: let start = Instant::now();
BenchStartTimer ==
    /\ bench.pc = "start_timer"
    /\ bench' = [bench EXCEPT !.pc = "run_wall", !.timing = TRUE]
    /\ UNCHANGED webgpu_vars

\* linux.rs:47: let duration = start.elapsed();
BenchStopTimer ==
    /\ bench.pc = "stop_timer"
    /\ bench' = [bench EXCEPT !.pc = "result", !.timing = FALSE]
    /\ UNCHANGED webgpu_vars

\* linux.rs:52-60: Ok(BenchmarkStats { .. })
BenchResult ==
    /\ bench.pc = "result"
    /\ bench' = [bench EXCEPT !.pc = "done", !.result = "Ok"]
    /\ UNCHANGED webgpu_vars

NextBench ==
    \/ BenchCreateGroup
    \/ BenchPrepareCounters
    \/ BenchConstruct
    \/ BenchEnable
    \/ BenchRun
    \/ BenchDisable
    \/ BenchCheckEnable
    \/ BenchRead
    \/ BenchStartTimer
    \/ BenchStopTimer
    \/ BenchResult

SpecBench == Init /\ [][NextBench]_vars

(***************************************************************************)
(* The stride expression of CreateSwapChain on widths of the whole i32     *)
(* range (lib.rs:528-531).  A 32-bit value is kept as its two 16-bit       *)
(* halves, hi * 2^16 + lo; a width is the bit pattern of the i32.          *)
(* `width * 4` is an i32 multiplication and `+ 1` a u32 addition: on       *)
(* overflow a build with overflow checks panics and a build without them   *)
(* wraps.                                                                  *)
(***************************************************************************)
WideHalf == Pow2(U32Bits \div 2)

\* The high halves of the widths evaluated: 0, 2^29 - 1, 2^29, 2^30 - 1 and
\* -1 fall in them.
WideHighs == {0, 8191, 8192, 16383, 65535}

\* The low halves of the widths evaluated: the lowest and the highest.
WideLows == (0..MaxWideLo) \cup ((WideHalf - 1 - MaxWideLo)..(WideHalf - 1))

\* The bit pattern times 4, not reduced.
Wide4(w) ==
    LET l == w.lo * 4
    IN [hi |-> w.hi * 4 + l \div WideHalf, lo |-> l % WideHalf]

\* The i32 of the bit pattern is negative.
WideNegative(w) == w.hi >= WideHalf \div 2

\* lib.rs:531: `width * 4` leaves the i32 range, which is [-2^29, 2^29)
\* of width.
MulOverflows(w) ==
    IF WideNegative(w) THEN w.hi < WideHalf - WideHalf \div 8
                       ELSE w.hi >= WideHalf \div 8

\* `as u32` and the wrapping of a u32: the value mod 2^32.
WideU32(v) == [hi |-> v.hi % WideHalf, lo |-> v.lo]

\* A mutant of WideOr: the low bits are not set.
WideOrNothing(v, mask) == v
\* lib.rs:531: v | mask, for a mask below 2^16.
WideOr(v, mask) == [hi |-> v.hi, lo |-> BitOr(v.lo, mask)]

\* lib.rs:531: v + 1, not reduced.
WideAddOne(v) ==
    IF v.lo + 1 = WideHalf THEN [hi |-> v.hi + 1, lo |-> 0]
                           ELSE [hi |-> v.hi, lo |-> v.lo + 1]

\* The u32 addition left the u32 range.
AddOverflows(v) == v.hi >= WideHalf

\* One width of the i32 range, in a build with or without overflow checks.
InitWide ==
    /\ chan = <<>>
    /\ sent = [p \in Producers |-> 0]
    /\ pc = "recv"
    /\ handled = <<>>
    /\ adapters = <<>>
    /\ devices = <<>>
    /\ global = "live"
    /\ wgpu_image_map = EmptyMap
    /\ map_poisoned = FALSE
    /\ locked_ids = EmptyMap
    /\ next_ext_id = 0
    /\ registry = "free"
    /\ next_image_key = 0
    /\ backend_busy = 0
    /\ locals = NoLocals
    /\ provider = "ok"
    /\ returned = NoReturn
    /\ effects = <<>>
    /\ bench = BenchIdle
    /\ \E h \in WideHighs : \E l \in WideLows : \E c \in BOOLEAN :
         wide = [pc |-> "width", width |-> [hi |-> h, lo |-> l],
                 overflow_checks |-> c]

\* lib.rs:531: (width * 4) as u32
WideMultiply ==
    /\ wide.pc = "width"
    /\ IF MulOverflows(wide.width) /\ wide.overflow_checks
       THEN wide' = [pc |-> "panicked", width |-> wide.width,
                     overflow_checks |-> wide.overflow_checks]
       ELSE wide' = [pc |-> "bytes", width |-> wide.width,
                     overflow_checks |-> wide.overflow_checks,
                     bytes |-> WideU32(Wide4(wide.width))]
    /\ UNCHANGED <<chan, sent, pc, handled, adapters, devices, global,
                   wgpu_image_map, map_poisoned, locked_ids, next_ext_id,
                   registry,
                   next_image_key, backend_busy, locals, provider, returned,
                   effects, bench>>

\* lib.rs:530-531: (.. | (COPY_BYTES_PER_ROW_ALIGNMENT - 1)) + 1
WideAlign ==
    /\ wide.pc = "bytes"
    /\ LET s == WideAddOne(WideOr(wide.bytes,
                                  COPY_BYTES_PER_ROW_ALIGNMENT - 1))
       IN IF AddOverflows(s) /\ wide.overflow_checks
          THEN wide' = [pc |-> "panicked", width |-> wide.width,
                        overflow_checks |-> wide.overflow_checks]
          ELSE wide' = [pc |-> "stride", width |-> wide.width,
                        overflow_checks |-> wide.overflow_checks,
                        bytes |-> wide.bytes, buffer_stride |-> WideU32(s)]
    /\ UNCHANGED <<chan, sent, pc, handled, adapters, devices, global,
                   wgpu_image_map, map_poisoned, locked_ids, next_ext_id,
                   registry,
                   next_image_key, backend_busy, locals, provider, returned,
                   effects, bench>>

NextWide == WideMultiply \/ WideAlign

SpecWide == InitWide /\ [][NextWide]_vars

(***************************************************************************)
(* Helpers of the properties.                                              *)
(***************************************************************************)
SeqToSet(s) == {s[i] : i \in DOMAIN s}
\* Every request enqueued so far: received ones and those in the channel.
AllEnqueued == SeqToSet(handled) \cup SeqToSet(chan)
\* A RequestAdapter id set none of whose ids names an available backend.
NoMatch(ids) == \A id \in ids : BackendOf(id) \notin AvailableBackends
HandledOfKind(kind) == {m \in SeqToSet(handled) : m.kind = kind}
(***************************************************************************)
(* Properties.                                                             *)
(***************************************************************************)

\* C1: backend calls never overlap.  At most one backend call is in
\* progress in any state, and every backend call the actor makes begins
\* while no other backend call is in progress, whatever the producers
\* have enqueued in the meantime.
C1_BackendCallsSerial ==
    /\ backend_busy <= 1
    /\ \A i \in DOMAIN effects :
          effects[i].kind = "backend" => effects[i].busy = 0

\* The actor is blocked inside device_poll while requests of both
\* producers have been enqueued and one is waiting in the channel.
C1_Witness ==
    /\ pc = "present_poll" /\ backend_busy = 1
    /\ chan # <<>>
    /\ \A p \in Producers : sent[p] > 0

\* C2: requests are handled in the order they were enqueued.  The i-th
\* request received is the i-th enqueued, and in the log of effects no
\* effect of a later request precedes an effect of an earlier one.
C2_ArrivalOrder ==
    /\ \A i \in DOMAIN handled : handled[i].n = i
    /\ \A i, j \in DOMAIN effects :
          i < j => effects[i].req <= effects[j].req

\* Two requests have both been handled and both left effects, with a third
\* one enqueued behind them.
C2_Witness ==
    /\ Len(handled) >= 2
    /\ \E i, j \in DOMAIN effects : effects[i].req = 1 /\ effects[j].req = 2
    /\ chan # <<>>

\* C3: only Exit stops the dispatch loop.  Whenever the actor thread has
\* ended, the last request it received is an Exit (so every request
\* enqueued before that Exit was received and handled before it).
C3_OnlyExitStops ==
    ~ActorAlive =>
        /\ handled # <<>>
        /\ handled[Len(handled)].kind = "Exit"

\* Some Exit was enqueued before request n.
EarlierExit(n) == \E m \in AllEnqueued : m.kind = "Exit" /\ m.n < n

\* C4: every reply-bearing request gets exactly one message on its reply
\* handle.  No handle is ever sent more than one message, and once the
\* actor thread has ended every reply-bearing request that was enqueued
\* with no Exit ahead of it has been sent exactly one.
C4_ExactlyOneReply ==
    \A m \in AllEnqueued :
        m.kind \in ReplyBearing =>
            /\ Len(RepliesOn(m.n)) <= 1
            /\ (~ActorAlive /\ ~EarlierExit(m.n)) => Len(RepliesOn(m.n)) = 1

\* The first Exit enqueued.
FirstExit == CHOOSE m \in AllEnqueued : m.kind = "Exit" /\ ~EarlierExit(m.n)

\* C5: exit() always yields one acknowledgement and one prior shutdown
\* notification.  Once the actor thread has ended with an Exit enqueued,
\* the first Exit has been acknowledged exactly once, exactly one
\* WebGPUMsg::Exit was sent upstream, and it was sent before the
\* acknowledgement.
C5_ExitAcknowledged ==
    (~ActorAlive /\ \E m \in AllEnqueued : m.kind = "Exit") =>
        /\ Len(RepliesOn(FirstExit.n)) = 1
        /\ Len(OfKind(effects, "script")) = 1
        /\ \E i, j \in DOMAIN effects :
              /\ i < j
              /\ effects[i].kind = "script"
              /\ effects[j].kind = "reply" /\ effects[j].req = FirstExit.n

\* C6: the steps of Exit and its finality.  A received Exit is the last
\* request received, its effects are exactly the upstream notification
\* (sent or failed), the release of the backend global and the
\* acknowledgement, in this order, and they are the last effects of the
\* log in every later state: nothing is received or done after them.
C6_ExitSteps ==
    \A i \in DOMAIN handled :
        handled[i].kind = "Exit" =>
            LET n == handled[i].n
                k == Len(effects)
            IN /\ i = Len(handled)
               /\ pc = "done"
               /\ global = "dropped"
               /\ k >= 3
               /\ Len(EffectsOf(n)) = 3
               /\ effects[k - 2].req = n /\ effects[k - 2].kind = "script"
               /\ effects[k - 1].req = n /\ effects[k - 1].kind = "drop_global"
               /\ effects[k].req = n /\ effects[k].kind = "reply"
               /\ effects[k].arg = "()"

\* An Exit was handled whose upstream notification failed to send, with a
\* request left behind in the channel.
C6_Witness ==
    /\ pc = "done" /\ chan # <<>>
    /\ \E i \in DOMAIN effects : effects[i].kind = "script" /\ ~effects[i].ok
    /\ effects[Len(effects)].kind = "reply"

\* C7: a RequestAdapter that matches no backend adapter is answered with
\* exactly one error and adds nothing to the adapter list.  The step that
\* receives such a request leaves adapters unchanged and sends exactly one
\* message, an Err, on the request's reply handle.
C7_NoMatchRepliesErrorOnce ==
    [][(/\ ActorReady
        /\ Msg.kind = "RequestAdapter"
        /\ NoMatch(Msg.p.ids)
        /\ handled' = Append(handled, Msg))
       => (/\ adapters' = adapters
           /\ LET new == SubSeq(effects', Len(effects) + 1, Len(effects'))
                  replies == OfKind(new, "reply")
              IN /\ Len(replies) = 1
                 /\ replies[1].req = Msg.n
                 /\ replies[1].arg.tag = "Err")]_vars

\* A request that matched no adapter was handled after an adapter had been
\* granted to an earlier one.
C7_Witness ==
    /\ \E m \in HandledOfKind("RequestAdapter") : NoMatch(m.p.ids)
    /\ adapters # <<>>

\* The RequestAdapter requests received so far that match an adapter.
Granted ==
    SelectSeq(handled,
              LAMBDA m : m.kind = "RequestAdapter" /\ ~NoMatch(m.p.ids))

\* C8: a matching RequestAdapter is answered with exactly one success and
\* appends the adapter once.  The adapter list holds one id per matching
\* request received, in order; the request's one reply is an Ok carrying
\* that id (one of the proposed ids, of an available backend), a non-empty
\* adapter name and a sender of the channel the actor receives from.
C8_MatchRepliesSuccessOnce ==
    /\ Len(adapters) = Len(Granted)
    /\ \A i \in DOMAIN Granted :
          LET r == RepliesOn(Granted[i].n)
          IN /\ Len(r) = 1
             /\ r[1].arg.tag = "Ok"
             /\ r[1].arg.v.adapter_id = adapters[i]
             /\ adapters[i] \in Granted[i].p.ids
             /\ BackendOf(adapters[i]) \in AvailableBackends
             /\ r[1].arg.v.adapter_name = adapter_name(adapters[i])
             /\ r[1].arg.v.adapter_name # ""
             /\ r[1].arg.v.channel = RequestChannel

\* Two matching requests have been handled and a request sent on the
\* channel is waiting to be received by the same loop.
C8_Witness ==
    /\ Len(Granted) = 2
    /\ Len(adapters) = 2
    /\ chan # <<>>

\* C9: a failed backend device request is answered with an error.  Every
\* adapter_request_device call is followed by exactly one reply on the
\* request's handle, which is an Ok exactly when the backend call
\* succeeded.
C9_DeviceFailureIsError ==
    \A i \in DOMAIN effects :
        (effects[i].kind = "backend" /\ effects[i].op = "adapter_request_device")
        => LET r == RepliesOn(effects[i].req)
           IN /\ Len(r) = 1
              /\ (r[1].arg.tag = "Ok") <=> effects[i].ok

\* C10 as stated: the recorded row stride is width * 4 rounded up to the
\* alignment, the smallest multiple of it that is >= width * 4.
C10_StrideIsRoundUp ==
    \A x \in DOMAIN wgpu_image_map :
        LET pd == wgpu_image_map[x]
        IN /\ pd.buffer_stride
                = RoundUp(pd.size[1] * 4, COPY_BYTES_PER_ROW_ALIGNMENT)
           /\ pd.buffer_stride >= pd.size[1] * 4

\* C10 as amended: the recorded row stride is the smallest multiple of the
\* alignment that is strictly greater than width * 4; it is a multiple of
\* the alignment, exceeds width * 4 and does so by at most the alignment.
C10_StrideIsNextMultiple ==
    \A x \in DOMAIN wgpu_image_map :
        LET pd == wgpu_image_map[x]
            bytes == pd.size[1] * 4
        IN /\ pd.buffer_stride % COPY_BYTES_PER_ROW_ALIGNMENT = 0
           /\ pd.buffer_stride > bytes
           /\ pd.buffer_stride - COPY_BYTES_PER_ROW_ALIGNMENT <= bytes
           /\ pd.buffer_stride >= RoundUp(bytes, COPY_BYTES_PER_ROW_ALIGNMENT)

\* A swapchain was created whose width * 4 is a positive multiple of the
\* alignment.
C10_Witness ==
    \E x \in DOMAIN wgpu_image_map :
        /\ wgpu_image_map[x].size[1] > 0
        /\ (wgpu_image_map[x].size[1] * 4) % COPY_BYTES_PER_ROW_ALIGNMENT = 0


(***************************************************************************)
(* Helpers of the properties of one step of the actor.                     *)
(***************************************************************************)
\* The effects this step appends to the log.
NewEffects == SubSeq(effects', Len(effects) + 1, Len(effects'))
\* This step is the actor receiving a request of the kind.
Receives(kind) ==
    /\ ActorReady /\ Msg.kind = kind
    /\ handled' = Append(handled, Msg)
OfOp(s, kind, op) == SelectSeq(s, LAMBDA e : e.kind = kind /\ e.op = op)

(***************************************************************************)
(* Helpers of the properties of a whole handler, which is several steps    *)
(* of the actor when it works on the table.                                *)
(***************************************************************************)
\* The actor thread is inside the handler of the last request it received.
InHandler == pc \notin {"recv", "done", "panicked", "aborted"}
\* The handler of the received request is over.
Over(m) == ~(InHandler /\ m = Cur)
\* The inserts and removes of the id's entry made by requests before n.
EntryOps(x, n) ==
    SelectSeq(effects,
              LAMBDA e : /\ e.kind = "table" /\ e.op \in {"insert", "remove"}
                         /\ e.arg = x /\ e.req < n)
\* The id had a table entry when request n was received.
HadEntry(x, n) ==
    LET s == EntryOps(x, n) IN s # <<>> /\ s[Len(s)].op = "insert"
\* The CreateSwapChain that made the entry the id had when request n was
\* received.
MakerOf(x, n) == handled[EntryOps(x, n)[Len(EntryOps(x, n))].req]

\* C11: a CreateSwapChain for an id with no table entry, once its handler is
\* over, has made one staging buffer on the backend whose size is the
\* recorded row stride times the height, has added one table entry for the
\* id and has emitted one add-image transaction; when it is the last
\* request handled the id has its (single) entry, which records the
\* request's device, the buffer's id, the stride and the size.
C11_CreateRegistersOne ==
    \A m \in HandledOfKind("CreateSwapChain") :
       LET x == m.p.external_id
           es == EffectsOf(m.n)
           creates == OfOp(es, "backend", "device_create_buffer")
           adds == OfOp(es, "txn", "add_image")
           inserts == OfOp(es, "table", "insert")
       IN (Over(m) /\ ~HadEntry(x, m.n))
          => /\ Len(creates) = 1 /\ Len(adds) = 1 /\ Len(inserts) = 1
             /\ Len(OfKind(es, "backend")) = 1
             /\ Len(OfKind(es, "txn")) = 1
             /\ Len(OfKind(es, "table")) = 1
             /\ inserts[1].arg = x
             /\ creates[1].arg.device_id = m.p.device_id
             /\ creates[1].arg.buffer_id = m.n
             /\ m = Cur
                   => /\ x \in DOMAIN wgpu_image_map
                      /\ wgpu_image_map[x].device_id = m.p.device_id
                      /\ wgpu_image_map[x].size = m.p.size
                      /\ wgpu_image_map[x].buffer_id = creates[1].arg.buffer_id
                      /\ creates[1].arg.size =
                            wgpu_image_map[x].buffer_stride * m.p.size[2]
                      /\ wgpu_image_map[x].buffer_stride >= m.p.size[1] * 4

\* A swapchain of height 2 has been created for an id that had no entry,
\* next to the entry of another id.
C11_Witness ==
    /\ pc = "recv"
    /\ Cardinality(DOMAIN wgpu_image_map) = 2
    /\ \E m \in HandledOfKind("CreateSwapChain") :
          /\ m.p.size[2] = 2
          /\ m.p.external_id \in DOMAIN wgpu_image_map
          /\ wgpu_image_map[m.p.external_id].buffer_id = m.n
          /\ Len(OfOp(EffectsOf(m.n), "txn", "add_image")) = 1

\* C12: a present of a swapchain created with width W and height H, once
\* its handler is over, has read back a byte vector whose length, like the
\* size of the staging buffer created for the swapchain and the range
\* mapped for the present, is at least round_up(W * 4, ALIGN) * H, and has
\* emitted exactly one update-image transaction.
C12_PresentReadsBack ==
    \A m \in HandledOfKind("SwapChainPresent") :
       LET x == m.p.external_id IN
       (Over(m) /\ HadEntry(x, m.n))
          => LET c == MakerOf(x, m.n)
                 least == RoundUp(c.p.size[1] * 4, COPY_BYTES_PER_ROW_ALIGNMENT)
                             * c.p.size[2]
                 ofm == EffectsOf(m.n)
                 maps == OfOp(ofm, "backend", "buffer_map_async")
                 made == OfOp(EffectsOf(c.n), "backend", "device_create_buffer")
                 read == OfOp(ofm, "table", "update")
             IN /\ c.kind = "CreateSwapChain"
                /\ Len(made) = 1 /\ made[1].arg.size >= least
                /\ Len(maps) = 1 /\ maps[1].arg.range[2] >= least
                /\ maps[1].arg.buffer_id = made[1].arg.buffer_id
                /\ Len(read) = 1 /\ read[1].arg.data.len >= least
                /\ Len(OfOp(ofm, "txn", "update_image")) = 1
                /\ Len(OfKind(ofm, "txn")) = 1
                /\ m = Cur
                      => /\ x \in DOMAIN wgpu_image_map
                         /\ wgpu_image_map[x].data = read[1].arg.data

\* C13: a DestroySwapChain of an id that has an entry, once its handler is
\* over, has removed the entry, destroyed the staging buffer of that entry
\* and emitted exactly one delete-image transaction; a SwapChainPresent of
\* the id received while it is destroyed and has no entry emits no
\* transaction (and nothing else), and after either the actor is back at
\* receiving the next request.
C13_DestroyReleases ==
    /\ \A m \in HandledOfKind("DestroySwapChain") :
          LET x == m.p.external_id
              es == EffectsOf(m.n)
              destroys == OfOp(es, "backend", "buffer_destroy")
              removes == OfOp(es, "table", "remove")
          IN (Over(m) /\ HadEntry(x, m.n))
             => /\ Len(removes) = 1 /\ removes[1].arg = x
                /\ Len(OfKind(es, "table")) = 1
                /\ Len(destroys) = 1
                /\ destroys[1].arg.buffer_id = MakerOf(x, m.n).n
                /\ Len(OfKind(es, "backend")) = 1
                /\ Len(OfOp(es, "txn", "delete_image")) = 1
                /\ Len(OfKind(es, "txn")) = 1
                /\ m = Cur => (x \notin DOMAIN wgpu_image_map /\ pc = "recv")
    /\ \A m \in HandledOfKind("SwapChainPresent") :
          LET x == m.p.external_id IN
          (Over(m) /\ ~HadEntry(x, m.n)
              /\ \E d \in HandledOfKind("DestroySwapChain") :
                    d.p.external_id = x /\ d.n < m.n)
             => /\ EffectsOf(m.n) = <<>>
                /\ m = Cur => (x \notin DOMAIN wgpu_image_map /\ pc = "recv")

\* A swapchain was created, destroyed, then presented: the present left no
\* effect, and the actor has handled the request that came after it.
C13_Witness ==
    /\ Len(handled) = 4
    /\ handled[1].kind = "CreateSwapChain"
    /\ handled[2].kind = "DestroySwapChain"
    /\ handled[3].kind = "SwapChainPresent"
    /\ handled[2].p.external_id = handled[1].p.external_id
    /\ handled[3].p.external_id = handled[1].p.external_id
    /\ Len(OfOp(EffectsOf(handled[2].n), "txn", "delete_image")) = 1
    /\ EffectsOf(handled[3].n) = <<>>
    /\ EffectsOf(handled[4].n) # <<>>
    /\ pc = "recv"

\* This step is the actor at the table lookup the handler of a request
\* naming the id starts with: the insert of a CreateSwapChain, the remove
\* of a DestroySwapChain, the first lookup of a SwapChainPresent.
LooksUp(at, x) == pc = at /\ pc' # pc /\ Cur.p.external_id = x

\* C14: a SwapChainPresent of an id with no table entry does nothing: no
\* backend call, no transaction, no reply or any other effect; receiving it
\* and looking the id up leave the table and the rest of the actor's state
\* as before, and the actor is back at receiving the next request.
C14_PresentUnknownIsNoOp ==
    /\ [](\A m \in HandledOfKind("SwapChainPresent") :
            (Over(m) /\ ~HadEntry(m.p.external_id, m.n))
               => /\ EffectsOf(m.n) = <<>>
                  /\ m = Cur => (pc = "recv" /\ locals = NoLocals))
    /\ [][/\ Receives("SwapChainPresent")
                => /\ NewEffects = <<>>
                   /\ UNCHANGED <<wgpu_image_map, adapters, devices, global,
                                  map_poisoned, locked_ids, backend_busy,
                                  locals>>
          /\ \A x \in ExternalIds :
                (LooksUp("present_first", x) /\ x \notin DOMAIN wgpu_image_map)
                => /\ NewEffects = <<>>
                   /\ pc' = "recv"
                   /\ UNCHANGED <<wgpu_image_map, adapters, devices, global,
                                  map_poisoned, locked_ids, backend_busy,
                                  locals>>
         ]_vars

\* A present of an id for which nothing was ever created has been handled
\* without effect, and the actor has handled the request after it.
C14_Witness ==
    \E i \in 1..(Len(handled) - 1) :
       /\ handled[i].kind = "SwapChainPresent"
       /\ \A j \in 1..i :
             handled[j].kind = "CreateSwapChain"
                => handled[j].p.external_id # handled[i].p.external_id
       /\ EffectsOf(handled[i].n) = <<>>
       /\ EffectsOf(handled[i + 1].n) # <<>>

\* C15: a DestroySwapChain of an id with no table entry does nothing and is
\* never fatal: no effect on the backend or the compositor, the table and
\* the rest of the actor's state are as before, and the actor is back at
\* receiving the next request.
C15_DestroyUnknownIsNoOp ==
    [][\A x \in ExternalIds :
          (LooksUp("destroy_remove", x) /\ x \notin DOMAIN wgpu_image_map)
          => /\ NewEffects = <<>>
             /\ wgpu_image_map' = wgpu_image_map
             /\ pc' = "recv"
             /\ UNCHANGED <<adapters, devices, global, map_poisoned,
                            locked_ids, backend_busy, locals>>
      ]_vars

\* A DestroySwapChain of the id has been handled to its end.
DestroyedOver(x) ==
    \E m \in HandledOfKind("DestroySwapChain") :
       m.p.external_id = x /\ Over(m)

\* This step is a step of the handler of a request that names the
\* external id.
HandlesFor(x) ==
    /\ InHandler /\ (pc' # pc \/ effects' # effects)
    /\ "external_id" \in DOMAIN Cur.p
    /\ Cur.p.external_id = x
NoBackendOrTxn(s) ==
    /\ OfKind(s, "backend") = <<>>
    /\ OfKind(s, "txn") = <<>>

\* C16: destroyed is terminal.  Once a DestroySwapChain of an id has been
\* handled, no later step gives the id a table entry, and no later request
\* naming the id (another CreateSwapChain of it included) causes a backend
\* call or a compositor transaction.
C16_DestroyedIsTerminal ==
    [][\A x \in ExternalIds :
          DestroyedOver(x)
             => /\ x \notin DOMAIN wgpu_image_map'
                /\ HandlesFor(x) => NoBackendOrTxn(NewEffects)
      ]_vars

\* C16, amended: handling a DestroySwapChain of an id leaves the id without
\* a table entry, and while a destroyed id has no entry no request other
\* than a CreateSwapChain of it gives it one or causes a backend call or a
\* transaction for it; a CreateSwapChain of a destroyed id registers a fresh
\* entry with a new staging buffer and a new image, as for a new id.
C16_DestroyedUntilRecreated ==
    /\ [][\A x \in ExternalIds :
             /\ LooksUp("destroy_remove", x)
                   => x \notin DOMAIN wgpu_image_map'
             /\ (DestroyedOver(x) /\ x \notin DOMAIN wgpu_image_map)
                   => IF LooksUp("create_insert", x)
                      THEN /\ x \in DOMAIN wgpu_image_map'
                           /\ wgpu_image_map'[x].buffer_id = Cur.n
                           /\ wgpu_image_map'[x].size = Cur.p.size
                      ELSE /\ x \notin DOMAIN wgpu_image_map'
                           /\ HandlesFor(x) => NoBackendOrTxn(NewEffects)
         ]_vars
    /\ [](\A m \in HandledOfKind("CreateSwapChain") :
            (/\ Over(m)
             /\ \E d \in HandledOfKind("DestroySwapChain") :
                   d.p.external_id = m.p.external_id /\ d.n < m.n)
            => /\ Len(OfOp(EffectsOf(m.n), "backend",
                           "device_create_buffer")) = 1
               /\ Len(OfOp(EffectsOf(m.n), "txn", "add_image")) = 1
               /\ OfOp(EffectsOf(m.n), "backend",
                       "device_create_buffer")[1].arg.buffer_id = m.n)

\* A swapchain was created, destroyed and created again for the same id: the
\* id has the entry of the second creation.
C16_Witness ==
    /\ Len(handled) = 3
    /\ handled[1].kind = "CreateSwapChain"
    /\ handled[2].kind = "DestroySwapChain"
    /\ handled[3].kind = "CreateSwapChain"
    /\ handled[2].p.external_id = handled[1].p.external_id
    /\ handled[3].p.external_id = handled[1].p.external_id
    /\ handled[1].p.external_id \in DOMAIN wgpu_image_map
    /\ wgpu_image_map[handled[1].p.external_id].buffer_id = handled[3].n
    /\ pc = "recv"

\* The device_create_buffer calls made for the staging buffer of an entry.
StagingBuffersOf(pd) ==
    SelectSeq(effects, LAMBDA e : /\ e.kind = "backend"
                                  /\ e.op = "device_create_buffer"
                                  /\ e.arg.buffer_id = pd.buffer_id)

\* C17: a swapchain created with width 0 or height 0 has a zero-length
\* staging region: the size of its staging buffer and the length of its
\* byte vector are both 0.
C17_ZeroSizeIsEmpty ==
    \A x \in DOMAIN wgpu_image_map :
       LET pd == wgpu_image_map[x] IN
       (pd.size[1] = 0 \/ pd.size[2] = 0)
          => /\ pd.data.len = 0
             /\ \A i \in DOMAIN StagingBuffersOf(pd) :
                   StagingBuffersOf(pd)[i].arg.size = 0

\* C17, amended: a swapchain created with height 0 has a staging buffer of
\* size 0 and a byte vector of length 0, whatever its width; one created
\* with width 0 and height H > 0 has the stride ALIGN, and its staging
\* buffer (made by the time the handler is over) and byte vector have
\* ALIGN * H bytes.
C17_ZeroHeightIsEmpty ==
    \A x \in DOMAIN wgpu_image_map :
       LET pd == wgpu_image_map[x]
           bytes == IF pd.size[2] = 0 THEN 0
                    ELSE COPY_BYTES_PER_ROW_ALIGNMENT * pd.size[2]
       IN (pd.size[1] = 0 \/ pd.size[2] = 0)
             => /\ pd.data.len = bytes
                /\ Over(handled[pd.buffer_id])
                      => /\ Len(StagingBuffersOf(pd)) = 1
                         /\ StagingBuffersOf(pd)[1].arg.size = bytes
                /\ pd.size[1] = 0 => pd.buffer_stride = COPY_BYTES_PER_ROW_ALIGNMENT

\* A swapchain of width 0 and height 2 has been created: its byte vector
\* has two rows of ALIGN bytes.
C17_Witness ==
    \E x \in DOMAIN wgpu_image_map :
       /\ pc = "recv"
       /\ Len(StagingBuffersOf(wgpu_image_map[x])) = 1
       /\ wgpu_image_map[x].size = <<0, 2>>
       /\ wgpu_image_map[x].data = [len |-> 512, byte |-> 255]


\* This step is the compositor calling lock(id) or unlock(id).
Calls(op, id) ==
    /\ returned'.call = returned.call + 1
    /\ returned'.op \in op
    /\ returned'.id = id
\* This step is the pending lock(id) getting the mutex.
Acquires(id) ==
    /\ provider = "locking" /\ provider' # "locking"
    /\ returned.id = id
\* This step is lock(id) returning.
Returns(id) ==
    /\ provider = "locked" /\ provider' # "locked"
    /\ returned.id = id

\* C18: lock(id) of an id with no table entry returns empty bytes and the
\* size (0, 0) and does not fail, whatever the table and the provider's
\* locked bytes hold.
C18_LockUnknownIsEmpty ==
    [][\A id \in ExternalIds :
          /\ (Acquires(id) /\ id \notin DOMAIN wgpu_image_map)
                => /\ provider' = "locked"
                   /\ returned'.data = EmptyVec
                   /\ returned'.size = <<0, 0>>
          /\ Returns(id)
                => /\ provider' = "ok"
                   /\ returned'.op = "lock"
                   /\ returned'.data = returned.data
                   /\ returned'.size = returned.size
      ]_vars

\* This step is a step of the actor thread.
ActorStep == handled' # handled \/ pc' # pc \/ effects' # effects

\* C19: the bytes lock(id) returned are a copy of the provider's own.  The
\* slice lock returns shows the bytes cloned from the entry under the
\* mutex, and while an id is locked no step of the actor (a step of a
\* present, a destroy or a re-creation of that id included) changes the
\* bytes the compositor sees through the slice: they stay the bytes the
\* lock returned.
C19_LockedBytesAreACopy ==
    [][/\ \A id \in DOMAIN locked_ids :
             ActorStep => /\ id \in DOMAIN locked_ids'
                          /\ LockedSlice(id)' = LockedSlice(id)
       /\ \A id \in ExternalIds :
             Returns(id)
                => /\ id \in DOMAIN locked_ids'
                   /\ returned'.data = returned.data
                   /\ LockedSlice(id)' = returned'.data
      ]_vars

\* Id 1 was locked after its creation with height 2 and then presented: the
\* table holds the bytes read back, the compositor still sees the bytes of
\* the time of the lock.
C19_Witness ==
    /\ 1 \in DOMAIN locked_ids /\ 1 \in DOMAIN wgpu_image_map
    /\ returned.op = "lock" /\ returned.id = 1
    /\ LockedSlice(1) = [len |-> 512, byte |-> 255]
    /\ wgpu_image_map[1].data = [len |-> 512, byte |-> 9]

\* C20: unlock(id) releases the id.  After it the provider holds no locked
\* bytes for the id and the locked bytes of every other id are as before;
\* unlock of an id that is not locked changes nothing.  It never fails and
\* touches neither the table nor the actor.
C20_UnlockReleases ==
    [][\A id \in ExternalIds :
          Calls({"unlock"}, id)
          => /\ DOMAIN locked_ids' = DOMAIN locked_ids \ {id}
             /\ \A y \in DOMAIN locked_ids' : locked_ids'[y] = locked_ids[y]
             /\ id \notin DOMAIN locked_ids => locked_ids' = locked_ids
             /\ provider' = "ok"
             /\ UNCHANGED <<wgpu_image_map, map_poisoned, pc, handled, chan,
                            effects, global>>
      ]_vars

\* The third call of the compositor was unlock(1), made while id 2 was
\* locked with the bytes of a swapchain of height 2: id 1 is not locked and
\* id 2 still is, with those bytes.
C20_Witness ==
    /\ returned.op = "unlock" /\ returned.id = 1 /\ returned.call = 3
    /\ DOMAIN locked_ids = {2}
    /\ locked_ids[2].len = 512

\* The position in handled of the last present or destroy of the id, or 0.
LastPresentOrDestroy(x) ==
    LET S == {i \in DOMAIN handled :
                 /\ handled[i].kind \in {"SwapChainPresent", "DestroySwapChain"}
                 /\ handled[i].p.external_id = x}
    IN IF S = {} THEN 0 ELSE CHOOSE i \in S : \A j \in S : j <= i
\* The bytes the request read back from the staging buffer into the table.
ReadBack(n) == OfOp(EffectsOf(n), "table", "update")

\* C21: round trip.  When the last present or destroy of an id is a present
\* that has completed, a lock of the id that gets the mutex reads, and then
\* returns, exactly the bytes that present read back from the staging
\* buffer, and the size recorded for the id.
C21_LockReturnsPresented ==
    [][\A id \in ExternalIds :
          LET last == LastPresentOrDestroy(id) IN
          (/\ Acquires(id)
           /\ last > 0
           /\ handled[last].kind = "SwapChainPresent"
           /\ Over(handled[last])
           /\ ReadBack(handled[last].n) # <<>>)
          => /\ provider' = "locked"
             /\ returned'.data = ReadBack(handled[last].n)[1].arg.data
             /\ returned'.size = wgpu_image_map[id].size
      ]_vars

\* A successful call has executed the benchmarked function exactly twice,
\* each time on the closure benchmark_constructor had just made.
TwoFreshRuns ==
    /\ Len(bench.runs) = 2
    /\ bench.made = 2
    /\ bench.runs[1].closure = 1
    /\ bench.runs[2].closure = 2

\* C22: a successful benchmark_function has executed the benchmarked
\* function exactly twice, each time on a fresh closure of
\* benchmark_constructor: the first execution is the one timed for the wall
\* time, the second is the one the perf counters count.
C22_WallTimeThenCounters ==
    bench.result = "Ok"
       => /\ TwoFreshRuns
          /\ bench.runs[1].timed /\ ~bench.runs[1].counting
          /\ bench.runs[2].counting /\ ~bench.runs[2].timed

\* The operations of a sequence of effects, in order.
Ops(s) == [i \in DOMAIN s |-> s[i].op]
IsPrefix(s, t) == Len(s) <= Len(t) /\ s = SubSeq(t, 1, Len(s))
\* The steps of a present of an id that has an entry.
PresentSteps ==
    <<"device_create_command_encoder",
      "command_encoder_copy_texture_to_buffer",
      "command_encoder_finish", "queue_submit", "buffer_map_async",
      "device_poll", "buffer_get_mapped_range", "update", "update_image",
      "buffer_unmap">>
\* The request is the present the actor is in the middle of.
InProgress(m) == InHandler /\ m = Cur

\* C23: a present of an id that has an entry does its steps in this order:
\* create a command encoder of its own, record the copy of the texture to
\* the staging buffer over the whole image with the recorded stride, finish
\* and submit the encoder, ask for the read mapping, wait for the backend,
\* read the mapped bytes and copy them into the entry, send update_image
\* with the dirty region All, and unmap the staging buffer last.  At every
\* point of the handler the steps done are the first ones of that order;
\* while the actor waits they are the steps up to the wait; a present that
\* asked for the mapping and is over has unmapped the buffer.
C23_PresentStepOrder ==
    \A m \in HandledOfKind("SwapChainPresent") :
       LET es == EffectsOf(m.n)
           k == Len(es)
       IN /\ IsPrefix(Ops(es), PresentSteps)
          /\ (m = Cur /\ pc = "present_poll") => k = 6
          /\ (InProgress(m) /\ pc \notin {"present_first", "present_calls"})
                => k >= 6
          /\ (~InProgress(m) /\ k > 0) => k = Len(PresentSteps)
          /\ k >= 1 => es[1].arg.encoder_id = m.n
          /\ k >= 2 => /\ es[2].arg.encoder_id = m.n
                       /\ es[2].arg.texture = m.p.texture_id
                       /\ es[2].arg.bytes_per_row > es[2].arg.copy_size[1] * 4
          /\ k >= 3 => es[3].arg = m.n
          /\ k >= 4 => es[4].arg.command_buffers = <<m.n>>
          /\ k >= 5 => /\ es[2].arg.buffer = es[5].arg.buffer_id
                       /\ es[5].arg.range[1] = 0
                       /\ es[5].arg.range[2]
                             = es[2].arg.bytes_per_row * es[2].arg.copy_size[2]
          /\ k >= 8 => es[8].arg.data.len = es[5].arg.range[2]
          /\ k >= 9 => /\ es[9].arg.dirty = "All"
                       /\ es[9].arg.key = m.p.image_key
                       /\ es[9].arg.desc.size = es[2].arg.copy_size
          /\ k >= 10 => es[10].arg = es[5].arg.buffer_id
          /\ (~InProgress(m) /\ k >= 5) => es[k].op = "buffer_unmap"

\* C24: the lists of granted adapters and devices only grow at the end.  In
\* every step the old list is a prefix of the new one; the adapter list
\* changes only when a RequestAdapter that names an available backend is
\* received, the device list only when a RequestDevice is received, and
\* then by one element.
C24_ListsAppendOnly ==
    [][/\ IsPrefix(adapters, adapters')
       /\ IsPrefix(devices, devices')
       /\ adapters' # adapters
             => /\ Receives("RequestAdapter")
                /\ ~NoMatch(Msg.p.ids)
                /\ Len(adapters') = Len(adapters) + 1
                /\ devices' = devices
       /\ devices' # devices
             => /\ Receives("RequestDevice")
                /\ Len(devices') = Len(devices) + 1
                /\ adapters' = adapters
      ]_vars

\* An adapter and a device have been granted, and a request that asks for
\* neither has been handled since, leaving both lists as they were.
C24_Witness ==
    /\ Len(adapters) = 1 /\ Len(devices) = 1
    /\ Len(handled) = 3
    /\ handled[3].kind \notin {"RequestAdapter", "RequestDevice"}

\* C25: the critical sections of the table lock are minimal.  No backend
\* call and no compositor transaction of the actor is made while the actor
\* holds the lock of the presentation table.
C25_CriticalSectionsMinimal ==
    \A i \in DOMAIN effects :
       effects[i].kind \in {"backend", "txn"} => ~effects[i].guard

\* C26: in every state the byte vector of each table entry has exactly
\* buffer_stride * height bytes, placeholder bytes after the creation and
\* read-back bytes after a present, and what a lock returned is the
\* unpadded width and height together with that many bytes: height rows
\* of the stride of that width.
C26_DataIsStrideTimesHeight ==
    /\ \A x \in DOMAIN wgpu_image_map :
          LET pd == wgpu_image_map[x] IN
          /\ pd.data.len = pd.buffer_stride * pd.size[2]
          /\ pd.buffer_stride >= pd.size[1] * 4
          /\ pd.data.len > 0 => pd.data.byte \in {255} \cup MappedBytes
    /\ returned.op = "lock"
          => returned.data.len
                = BufferStride(returned.size[1]) * returned.size[2]

\* Id 1, of width 1 and height 2, has been presented and then locked: the
\* entry and the bytes the lock returned are two rows of 256 read-back
\* bytes.
C26_Witness ==
    /\ 1 \in DOMAIN wgpu_image_map
    /\ wgpu_image_map[1].size = <<1, 2>>
    /\ wgpu_image_map[1].data = [len |-> 512, byte |-> 9]
    /\ returned.op = "lock" /\ returned.id = 1
    /\ returned.size = <<1, 2>>
    /\ returned.data = [len |-> 512, byte |-> 9]

\* C27: the entry a present found at its first lookup is still there at its
\* second.  From the first lookup to the second, the wait for the backend
\* included, the id the actor presents has an entry, whatever the
\* compositor locks and unlocks meanwhile, so a present that has started
\* its backend work and is over has emitted exactly one update_image
\* transaction and copied the read-back bytes exactly once.
C27_SecondLookupFinds ==
    /\ pc \in {"present_calls", "present_poll", "present_lookup",
                "present_txn"}
          => locals.external_id \in DOMAIN wgpu_image_map
    /\ \A m \in HandledOfKind("SwapChainPresent") :
          (EffectsOf(m.n) # <<>> /\ ~InProgress(m))
             => /\ Len(OfOp(EffectsOf(m.n), "txn", "update_image")) = 1
                /\ Len(ReadBack(m.n)) = 1

\* This step is a step of the compositor thread.
CompositorStep ==
    returned' # returned \/ provider' # provider \/ locked_ids' # locked_ids
\* This step is a step of the handler of a request of the kind.
StepOf(kind) ==
    \/ Receives(kind)
    \/ InHandler /\ Cur.kind = kind /\ ActorStep

\* C28: frame.  No step of a lock or unlock of the compositor changes the
\* presentation table; no step of a destroy of an id changes the entry of
\* another id or adds an entry; no step of a present of an id changes the
\* set of ids or the entry of another id.
C28_Frame ==
    [][/\ CompositorStep
             => /\ wgpu_image_map' = wgpu_image_map
                /\ map_poisoned' = map_poisoned
       /\ StepOf("DestroySwapChain")
             => /\ DOMAIN wgpu_image_map' \subseteq DOMAIN wgpu_image_map
                /\ \A y \in DOMAIN wgpu_image_map
                          \ {handled'[Len(handled')].p.external_id} :
                      /\ y \in DOMAIN wgpu_image_map'
                      /\ wgpu_image_map'[y] = wgpu_image_map[y]
       /\ StepOf("SwapChainPresent")
             => /\ DOMAIN wgpu_image_map' = DOMAIN wgpu_image_map
                /\ \A y \in DOMAIN wgpu_image_map
                          \ {handled'[Len(handled')].p.external_id} :
                      wgpu_image_map'[y] = wgpu_image_map[y]
      ]_vars

\* Ids 1 and 2 have entries, id 1 has been presented and id 2 has not, and
\* the compositor has locked and unlocked meanwhile.
C28_Witness ==
    /\ DOMAIN wgpu_image_map = {1, 2}
    /\ wgpu_image_map[1].data.byte = 9
    /\ wgpu_image_map[2].data.byte = 255
    /\ returned.op = "unlock" /\ returned.call = 2
    /\ \E m \in HandledOfKind("SwapChainPresent") : Len(ReadBack(m.n)) = 1

\* C29: for every width W with 0 <= W * 4 < 2^32 - ALIGN, the stride that
\* ((W * 4) | (ALIGN - 1)) + 1 computes is a positive multiple of ALIGN, is
\* strictly greater than W * 4 and exceeds W * 4 by at most ALIGN; on the
\* widths of the actor specification it is the stride CreateSwapChain
\* records.
C29_WideStride ==
    LET w == wide.width
        x == Wide4(w)
        s == wide.buffer_stride
        InRange == /\ ~WideNegative(w)
                   /\ \/ x.hi < WideHalf - 1
                      \/ /\ x.hi = WideHalf - 1
                         /\ x.lo < WideHalf - COPY_BYTES_PER_ROW_ALIGNMENT
    IN (wide.pc = "stride" /\ InRange)
          => /\ s.lo % COPY_BYTES_PER_ROW_ALIGNMENT = 0
             /\ s.hi > 0 \/ s.lo > 0
             /\ s.hi > x.hi \/ (s.hi = x.hi /\ s.lo > x.lo)
             /\ s.hi - x.hi \in {0, 1}
             /\ (s.hi - x.hi) * WideHalf + s.lo - x.lo
                   <= COPY_BYTES_PER_ROW_ALIGNMENT
             /\ (w.hi = 0 /\ w.lo <= MaxWidth)
                   => s = [hi |-> 0, lo |-> BufferStride(w.lo)]

\* The stride of a width of 2^29 or more whose 4-fold is below
\* 2^32 - ALIGN was computed, in a build without overflow checks.
C29_Witness ==
    /\ wide.pc = "stride"
    /\ wide.width = [hi |-> 16383, lo |-> 65471]
    /\ ~wide.overflow_checks
    /\ wide.buffer_stride = [hi |-> 65535, lo |-> 65280]

\* C30: the actor never holds the lock of the presentation table while it
\* waits in device_poll, so a call of lock that waits for the mutex gets it
\* as soon as the actor is outside its critical section, and the call that
\* gets it returns: under the fair scheduling of SpecLive every call of
\* lock, whenever it is issued, gets the lock and returns.  Stated on
\* finite runs: the actor holds no guard while a backend call is in
\* progress, a pending call can take its next step unless the actor is
\* inside the critical section of lib.rs:808-825, and a pending call ends
\* in no other way than by its return.
C30_LockEventuallyReturns ==
    /\ [](backend_busy > 0 => ~ActorHoldsTableLock)
    /\ [](provider = "locking" /\ ~ActorHoldsTableLock => ENABLED LockAcquire)
    /\ [](provider = "locked" => ENABLED LockReturn)
    /\ [][(provider = "locking" \/ provider = "locked")
            => \/ provider' \in {"locking", "locked"}
               \/ /\ provider' = "ok"
                  /\ returned'.op = "lock"
                  /\ returned'.call = returned.call
                  /\ returned'.id = returned.id]_vars
=============================================================================
